---- MODULE Spec2Model ----
(***************************************************************************)
(* A model of pyocd/target/pack/cmsis_pack.py: the walk of a CMSIS-Pack    *)
(* description (CmsisPackDescription), the per-category merge passes of    *)
(* _extract_items and the lazily built models of CmsisPackDevice.          *)
(*                                                                         *)
(* An XML element is the function of its attributes: the domain holds the  *)
(* attribute names that are present, the values are the attribute strings. *)
(* A Python dict is a sequence of [k, v] entries in insertion order.       *)
(***************************************************************************)
EXTENDS Integers, Sequences, FiniteSets, TLC

VARIABLES
    dbgMap,     \* the dict of the running _extract_items('debugs') pass
    dbgIn,      \* the debug elements that pass has folded so far, in order
    memMap,     \* the dict of the running _extract_items('memories') pass
    memCur,     \* the memory element the last fold step was given, with its outcome
    memCtx,     \* the pack and the device node the memory passes run for
    memPc,      \* "run", or "aborted" once an exception left _extract_items
    memFolds,   \* the number of memory elements folded so far
    warned,     \* CmsisPackDescription._warned_overlapping_memory_regions
    warnings,   \* the number of overlap warnings logged so far
    evictions,  \* the number of same-Pname overlap evictions so far
    pdsc,       \* the description as parsed: the pack kind, and per node its
                \* attributes and its child elements of each category
    procAttrib, \* the attributes each <processor> element holds now
    stateStack, \* CmsisPackDescription._state_stack, as the nodes pushed
    childIdx,   \* per stack level, how many children _parse_devices has entered
    famIdx,     \* how many <family> elements __init__ has walked
    devices,    \* CmsisPackDescription._devices, as their _DeviceInfo
    walkPc,     \* "idle", "walk", "done" or "aborted" (an exception left __init__)
    devInfo,    \* CmsisPackDevice._info of the device whose properties are read,
                \* with the kind of pack its get_file callback reads
    regions,    \* CmsisPackDevice._regions
    sawStartup, \* CmsisPackDevice._saw_startup
    defaultRam, \* CmsisPackDevice._default_ram
    memoryMap,  \* CmsisPackDevice._memory_map: None, or the regions of the map
    validDps,   \* CmsisPackDevice._valid_dps
    apids,      \* CmsisPackDevice._apids
    processorsMap,   \* CmsisPackDevice._processors_map
    processorsApMap, \* CmsisPackDevice._processors_ap_map
    builtApidMap,    \* CmsisPackDevice._built_apid_map
    memBuilds,  \* how often memory_map has run its construction
    dpBuilds,   \* how often _build_valid_dps has run
    apBuilds,   \* how often _build_aps_map has run
    accesses,   \* the number of property reads so far
    ret,        \* the last property read: its name, exception and value
    first       \* per property, what its first read returned

dbgVars == <<dbgMap, dbgIn>>
memVars == <<memMap, memCur, memCtx, memPc, memFolds, warned, warnings, evictions>>
walkVars == <<pdsc, procAttrib, stateStack, childIdx, famIdx, devices, walkPc>>
devVars == <<devInfo, regions, sawStartup, defaultRam, memoryMap, validDps, apids,
             processorsMap, processorsApMap, builtApidMap, memBuilds, dpBuilds,
             apBuilds, accesses, ret, first>>
vars == <<dbgVars, memVars, walkVars, devVars>>

-----------------------------------------------------------------------------
(* Python values.                                                          *)

\* Optional values: None is the empty sequence, a value x is <<x>>.
None == <<>>
Some(x) == <<x>>

\* elem.attrib.get(name): the attribute if present, else None.
AttribGet(elem, name) == IF name \in DOMAIN elem THEN Some(elem[name]) ELSE None

\* dict operations; a dict keeps the insertion order of its keys.
DictHas(d, k) == \E i \in 1..Len(d) : d[i].k = k
DictGet(d, k) == d[CHOOSE i \in 1..Len(d) : d[i].k = k].v
DictSet(d, k, v) ==
    IF DictHas(d, k)
    THEN [i \in 1..Len(d) |-> IF d[i].k = k THEN [k |-> k, v |-> v] ELSE d[i]]
    ELSE Append(d, [k |-> k, v |-> v])
DictDel(d, k) == SelectSeq(d, LAMBDA e : e.k # k)
DictKeys(d) == [i \in 1..Len(d) |-> d[i].k]
DictValues(d) == [i \in 1..Len(d) |-> d[i].v]

\* The largest number an attribute of the model spells.
MaxNum == 4

\* The spellings int(s, base=0) accepts, with their values: decimal and 0x-hex.
HexSpelling(n) == "0x" \o ToString(n)
IsIntLiteral(s) == \E n \in 0..MaxNum : s = ToString(n) \/ s = HexSpelling(n)
IntOf(s) == CHOOSE n \in 0..MaxNum : s = ToString(n) \/ s = HexSpelling(n)

\* int(elem.attrib[name], base=0): a value, or the exception it raises.
IntAttrib(elem, name) ==
    IF name \notin DOMAIN elem THEN [exc |-> "KeyError", val |-> 0]
    ELSE IF ~IsIntLiteral(elem[name]) THEN [exc |-> "ValueError", val |-> 0]
    ELSE [exc |-> "none", val |-> IntOf(elem[name])]

\* The ways an element carries attribute `name`: with one of `values`, or
\* (OptAttr) not at all. Elements are built by merging such choices with @@.
Attr(name, values) == {name :> v : v \in values}
OptAttr(name, values) == Attr(name, values) \cup {<<>>}

-----------------------------------------------------------------------------
(* _extract_debugs                                                         *)

MaxDebugs == 3

DebugPnames == {"A", "B", "*"}
DebugPunits == {"", "1"}
DebugSvds == {"x", "y"}

\* The <debug> elements of the model: Pname and Punit are optional, svd tells
\* two elements of the same scope apart.
DebugElems ==
    {p @@ u @@ s : p \in OptAttr("Pname", DebugPnames),
                   u \in OptAttr("Punit", DebugPunits),
                   s \in Attr("svd", DebugSvds)}

\* str(elem.attrib.get('Punit', 0))
DebugUnitStr(elem) == IF "Punit" \in DOMAIN elem THEN elem.Punit ELSE "0"

\* The key a <debug> element is stored under.
DebugKey(elem) ==
    IF "Pname" \in DOMAIN elem THEN elem.Pname \o DebugUnitStr(elem) ELSE "*"

\* filter() of _extract_debugs.
DebugFilter(map, elem) ==
    IF "Pname" \in DOMAIN elem
    THEN LET name == elem.Pname \o DebugUnitStr(elem)
             kept == IF DictHas(map, "*") THEN <<>> ELSE map
         IN  DictSet(kept, name, elem)
    ELSE DictSet(<<>>, "*", elem)

\* _extract_items('debugs', filter) over the elements of the stack, outer to inner.
RECURSIVE FoldDebugs(_, _)
FoldDebugs(map, elems) ==
    IF elems = <<>> THEN map
    ELSE FoldDebugs(DebugFilter(map, Head(elems)), Tail(elems))

ExtractDebugs(elems) == DictValues(FoldDebugs(<<>>, elems))

-----------------------------------------------------------------------------
(* _extract_memories                                                       *)

MaxMemFolds == 3

\* The well-formed <memory> elements of the model: two names, with and
\* without Pname, over the ranges [0,2], [1,1] and [1,3]; one named by 'id' only, on
\* [2,2]; one with neither 'name' nor 'id', on [0,0].
MemGoodElems ==
    {n @@ p @@ r : n \in Attr("name", {"a", "b"}),
                   p \in OptAttr("Pname", {"P"}),
                   r \in {[start |-> "0", size |-> "3"], [start |-> "1", size |-> "1"],
                          [start |-> "1", size |-> "3"]}}
    \cup {[id |-> "a", start |-> "2", size |-> "1"], [start |-> "0", size |-> "1"]}

\* <memory> elements whose start is missing or is no number.
MemBadElems ==
    {n @@ s @@ z : n \in Attr("name", {"a"}),
                   s \in OptAttr("start", {"zz"}),
                   z \in Attr("size", {"1"})}

MemElems == MemGoodElems \cup MemBadElems

\* The device or variant nodes a merge pass runs for, and the ways the pack
\* is held: no pack (tests), a zip archive, an expanded directory.
MemNodes ==
    {[tag |-> "device", attrib |-> [Dname |-> "d"]],
     [tag |-> "device", attrib |-> <<>>],
     [tag |-> "variant", attrib |-> [Dvariant |-> "v"]]}
PackKinds == {"none", "zip", "dir"}

\* _get_part_number_from_element: the part number, or the exception raised.
GetPartNumberFromElement(element) ==
    IF "Dname" \in DOMAIN element.attrib
    THEN [exc |-> "none", val |-> element.attrib.Dname]
    ELSE IF element.tag = "variant"
    THEN IF "Dvariant" \in DOMAIN element.attrib
         THEN [exc |-> "none", val |-> element.attrib.Dvariant]
         ELSE [exc |-> "KeyError", val |-> ""]
    ELSE [exc |-> "ValueError", val |-> ""]

\* `self.pack.filename if self.pack else "unknown"`: CmsisPack.filename reads
\* _pack_file, which __init__ sets only when the pack is not a directory.
PackFilename(pack) ==
    IF pack = "none" THEN [exc |-> "none", val |-> "unknown"]
    ELSE IF pack = "dir" THEN [exc |-> "AttributeError", val |-> ""]
    ELSE [exc |-> "none", val |-> "pack.zip"]

\* get_start_and_size() of _extract_memories.
GetStartAndSize(elem) ==
    LET s == IntAttrib(elem, "start")
        z == IntAttrib(elem, "size")
    IN  IF s.exc # "none" THEN [exc |-> s.exc, start |-> 0, size |-> 0]
        ELSE IF z.exc # "none" THEN [exc |-> z.exc, start |-> 0, size |-> 0]
        ELSE [exc |-> "none", start |-> s.val, size |-> z.val]

\* "%08x" % n, for the one-digit numbers of the model.
Hex08(n) == "0000000" \o ToString(n)

\* The name part of a memory's key: 'name', else 'id', else start and size.
MemName(elem, start, size) ==
    IF "name" \in DOMAIN elem THEN elem.name
    ELSE IF "id" \in DOMAIN elem THEN elem.id
    ELSE Hex08(start) \o ":" \o Hex08(size)

\* The overlap test of filter(): start or end between previous start and end.
Overlaps(prev_start, prev_end, start, end) ==
    \/ (prev_start <= start /\ start < prev_end)
    \/ (prev_start <= end /\ end < prev_end)

\* The flag as a filter() that forgot the assignment would leave it.
FlagLeftUnset == FALSE

\* What filter() does to the flag when it has logged the warning.
FlagAfterWarning == TRUE

\* One pass of the loop of filter() for key k, whose element has the range
\* prev. acc is [map, warned, logged, same, exc]: the dict, the flag, the
\* warnings logged, the same-Pname entries deleted, the exception raised.
\* filename and part are what the warning's arguments evaluate to.
OverlapStep(acc, k, prev, new, pname, filename, part) ==
    LET end == new.start + new.size - 1
        prev_end == prev.start + prev.size - 1
        overlap == Overlaps(prev.start, prev_end, new.start, end)
        warn == overlap /\ pname = k[2] /\ ~acc.warned
        exc == IF prev.exc # "none" THEN prev.exc
               ELSE IF ~warn THEN "none"
               ELSE IF filename.exc # "none" THEN filename.exc
               ELSE part.exc
    IN  IF exc # "none" THEN [acc EXCEPT !.exc = exc]
        ELSE IF ~overlap THEN acc
        ELSE [map |-> DictDel(acc.map, k),
              warned |-> IF warn THEN FlagAfterWarning ELSE acc.warned,
              logged |-> acc.logged + (IF warn THEN 1 ELSE 0),
              same |-> acc.same + (IF pname = k[2] THEN 1 ELSE 0),
              exc |-> "none"]

\* The loop of filter() over the keys the dict held when it began; an
\* exception ends the loop where it is raised.
RECURSIVE OverlapLoop(_, _, _, _, _)
OverlapLoop(keys, acc, new, pname, ctx) ==
    IF keys = <<>> \/ acc.exc # "none" THEN acc
    ELSE OverlapLoop(Tail(keys),
                     OverlapStep(acc, Head(keys),
                                 GetStartAndSize(DictGet(acc.map, Head(keys))),
                                 new, pname, PackFilename(ctx.pack),
                                 GetPartNumberFromElement(ctx.node)),
                     new, pname, ctx)

\* The last statement of filter(): the element is stored under its key,
\* unless the loop raised.
StoreMemory(r, info, elem) ==
    IF r.exc # "none" THEN r ELSE [r EXCEPT !.map = DictSet(r.map, info, elem)]

\* filter() once get_start_and_size() has returned ss: the entry of the same
\* key is deleted, the loop runs over the rest, the element is stored.
FilterRange(map, elem, flag, ctx, ss) ==
    LET pname == AttribGet(elem, "Pname")
        info == <<MemName(elem, ss.start, ss.size), pname>>
        start == [map |-> DictDel(map, info),
                  warned |-> flag, logged |-> 0, same |-> 0, exc |-> "none"]
    IN  IF ss.exc # "none"
        THEN [map |-> map, warned |-> flag, logged |-> 0, same |-> 0, exc |-> ss.exc]
        ELSE StoreMemory(OverlapLoop(DictKeys(start.map), start, ss, pname, ctx),
                         info, elem)

\* filter() of _extract_memories: the dict, the flag, the warnings logged, the
\* same-Pname entries deleted and the exception raised, if any.
MemFilter(map, elem, flag, ctx) ==
    FilterRange(map, elem, flag, ctx, GetStartAndSize(elem))

\* The exceptions _extract_items catches; any other leaves the walk.
Caught(exc) == exc \in {"none", "KeyError", "ValueError"}

\* The parts of the state a specification leaves alone.
DebugIdle == dbgMap = <<>> /\ dbgIn = <<>>
MemIdle ==
    /\ memMap = <<>> /\ memCur = [elem |-> <<>>, exc |-> "none"]
    /\ memCtx = [pack |-> "none", node |-> [tag |-> "device", attrib |-> <<>>]]
    /\ memPc = "idle" /\ memFolds = 0 /\ warned = FALSE /\ warnings = 0
    /\ evictions = 0

\* No device is read: the fields of a CmsisPackDevice as __init__ sets them.
DevIdle ==
    /\ devInfo = [pack |-> "none", memories |-> <<>>, algos |-> <<>>,
                  processors |-> <<>>, debugs |-> <<>>, debugports |-> <<>>,
                  accessports |-> <<>>]
    /\ regions = <<>> /\ sawStartup = FALSE /\ defaultRam = <<>> /\ memoryMap = <<>>
    /\ validDps = <<>> /\ apids = <<>> /\ processorsMap = <<>>
    /\ processorsApMap = <<>> /\ builtApidMap = FALSE
    /\ memBuilds = 0 /\ dpBuilds = 0 /\ apBuilds = 0
    /\ accesses = 0 /\ ret = <<>>
    /\ first = [p \in {"memory_map", "valid_dps", "apid_map", "processors_map",
                       "processors_ap_map"} |-> <<>>]

-----------------------------------------------------------------------------
(* The other merge passes.                                                 *)

\* What `k not in to_elem` of _inherit_attributes tests: membership in an
\* Element is membership among its child elements, and the <processor>
\* elements have none that equals an attribute name.
InElement(k, attrib) == FALSE

\* An update that replaces the attributes of to_elem by those of from_elem.
InheritReplaces(to, from) == from

\* _inherit_attributes: the attributes of to_elem afterwards.
InheritAttributes(to, from) ==
    LET inherited == {k \in DOMAIN from : ~InElement(k, to)}
    IN  [k \in DOMAIN to \cup inherited |-> IF k \in inherited THEN from[k] ELSE to[k]]

\* _extract_items('processors', filter): the elements are given by their
\* ids; acc is [map, attrib], the dict and every element's attributes.
\* An update that lands on the outer element, from_elem, instead.
UpdatedOuter(attrib, id, from) ==
    [attrib EXCEPT ![from[1]][from[2]] = InheritAttributes(attrib[id[1]][id[2]], @)]

\* to_elem.attrib.update(inherited): the attributes of every element once
\* element id has inherited from element from.
Updated(attrib, id, from) ==
    [attrib EXCEPT ![id[1]][id[2]] = InheritAttributes(@, attrib[from[1]][from[2]])]

\* filter() of _extract_processors for element id, whose Pname is pname.
ProcessorFilter(acc, id, pname) ==
    [map |-> DictSet(acc.map, pname, id),
     attrib |-> IF DictHas(acc.map, pname)
                THEN Updated(acc.attrib, id, DictGet(acc.map, pname))
                ELSE acc.attrib]

RECURSIVE FoldProcessors(_, _)
FoldProcessors(acc, ids) ==
    IF ids = <<>> THEN acc
    ELSE FoldProcessors(
             ProcessorFilter(acc, Head(ids),
                             AttribGet(acc.attrib[Head(ids)[1]][Head(ids)[2]], "Pname")),
             Tail(ids))

\* The counts of one filter() call added to those of the calls before it.
Accumulate(acc, r) ==
    [r EXCEPT !.logged = acc.logged + r.logged, !.same = acc.same + r.same]

\* _extract_items('memories', filter); acc is the result of MemFilter.
RECURSIVE FoldMemories(_, _, _)
FoldMemories(acc, elems, ctx) ==
    IF elems = <<>> \/ ~Caught(acc.exc) THEN acc
    ELSE FoldMemories(Accumulate(acc, MemFilter(acc.map, Head(elems), acc.warned, ctx)),
                      Tail(elems), ctx)

\* str.lower(), on the style strings of the model.
Lower(str) == IF str \in {"Keil", "KEIL"} THEN "keil" ELSE str

\* filter() of _extract_algos: the dict afterwards; an element that raises
\* KeyError or ValueError leaves it as it was.
AlgoFilter(map, elem) ==
    LET start == IntAttrib(elem, "start")
        size == IntAttrib(elem, "size")
    IN  IF "style" \in DOMAIN elem /\ Lower(elem.style) # "keil" THEN map
        ELSE IF start.exc # "none" \/ size.exc # "none" THEN map
        ELSE DictSet(map, <<start.val, size.val>>, elem)

\* A filter() that lost the dict when the key attribute is missing.
KeyedFilterClears(map, elem, name) ==
    IF name \notin DOMAIN elem THEN <<>> ELSE DictSet(map, elem[name], elem)

\* filter() of _extract_debugports and of _extract_accessports: the key is
\* the attribute as written.
KeyedFilter(map, elem, name) ==
    IF name \notin DOMAIN elem THEN map ELSE DictSet(map, elem[name], elem)

RECURSIVE FoldAlgos(_, _)
FoldAlgos(map, elems) ==
    IF elems = <<>> THEN map ELSE FoldAlgos(AlgoFilter(map, Head(elems)), Tail(elems))

RECURSIVE FoldKeyed(_, _, _)
FoldKeyed(map, elems, name) ==
    IF elems = <<>> THEN map
    ELSE FoldKeyed(KeyedFilter(map, Head(elems), name), Tail(elems), name)

ExtractAlgos(elems) == DictValues(FoldAlgos(<<>>, elems))
ExtractDebugports(elems) == DictValues(FoldKeyed(<<>>, elems, "__dp"))
ExtractAccessports(elems) == DictValues(FoldKeyed(<<>>, elems, "__apid"))

-----------------------------------------------------------------------------
(* The description tree and its walk: __init__ and _parse_devices.         *)

\* The shape of the tree: two families; the first holds a subFamily with a
\* device that has a variant, and a second device; the second holds a device.
Tags == <<"family", "subFamily", "device", "variant", "device", "family", "device">>
Children == <<<<2, 5>>, <<3>>, <<4>>, <<>>, <<>>, <<7>>, <<>>>>
Families == <<1, 6>>
Nodes == DOMAIN Tags
DeviceNodes == {n \in Nodes : Tags[n] \in {"device", "variant"}}

\* The node above n, 0 for a family; the path from the family down to n.
Parent(n) == IF \E m \in Nodes : \E i \in DOMAIN Children[m] : Children[m][i] = n
             THEN CHOOSE m \in Nodes : \E i \in DOMAIN Children[m] : Children[m][i] = n
             ELSE 0
RECURSIVE PathTo(_)
PathTo(n) == IF n = 0 THEN <<>> ELSE Append(PathTo(Parent(n)), n)

\* The element of a node, as _get_part_number_from_element reads it.
NodeElement(n) == [tag |-> Tags[n], attrib |-> pdsc.attrib[n]]

\* The elements of one category saved on the stack, outer to inner.
RECURSIVE StackElems(_, _)
StackElems(stack, category) ==
    IF stack = <<>> THEN <<>>
    ELSE pdsc[category][Head(stack)] \o StackElems(Tail(stack), category)

\* The <processor> elements saved on the stack, as ids <<node, index>>.
RECURSIVE StackProcessors(_)
StackProcessors(stack) ==
    IF stack = <<>> THEN <<>>
    ELSE [i \in 1..Len(pdsc.procs[Head(stack)]) |-> <<Head(stack), i>>]
         \o StackProcessors(Tail(stack))

\* _extract_families: the names, or the KeyError of a missing attribute.
RECURSIVE ExtractFamilies(_)
ExtractFamilies(stack) ==
    IF stack = <<>> THEN [exc |-> "none", val |-> <<>>]
    ELSE LET n == Head(stack)
             a == pdsc.attrib[n]
             need == IF Tags[n] = "family" THEN <<"Dvendor", "Dfamily">>
                     ELSE IF Tags[n] = "subFamily" THEN <<"DsubFamily">>
                     ELSE <<>>
             rest == ExtractFamilies(Tail(stack))
         IN  IF \E i \in DOMAIN need : need[i] \notin DOMAIN a
             THEN [exc |-> "KeyError", val |-> <<>>]
             ELSE IF rest.exc # "none" THEN rest
             ELSE [exc |-> "none", val |-> [i \in DOMAIN need |-> a[need[i]]] \o rest.val]

\* The _DeviceInfo of node n from what the merge passes returned, and what
\* the passes left assigned. The first exception that is not caught ends
\* the construction; the passes before it have run.
DeviceInfo(n, stack, fam, procs, mems, part) ==
    [exc |-> IF fam.exc # "none" THEN fam.exc
             ELSE IF ~Caught(mems.exc) THEN mems.exc
             ELSE part.exc,
     info |-> [node |-> n,
               part |-> part.val,
               families |-> fam.val,
               processors |-> DictValues(procs.map),
               memories |-> DictValues(mems.map),
               algos |-> ExtractAlgos(StackElems(stack, "algos")),
               debugs |-> ExtractDebugs(StackElems(stack, "debugs")),
               debugports |-> ExtractDebugports(StackElems(stack, "dps")),
               accessports |-> ExtractAccessports(StackElems(stack, "aps"))],
     attrib |-> IF fam.exc # "none" THEN procAttrib ELSE procs.attrib,
     warned |-> IF fam.exc # "none" THEN warned ELSE mems.warned,
     logged |-> IF fam.exc # "none" THEN 0 ELSE mems.logged,
     same |-> IF fam.exc # "none" THEN 0 ELSE mems.same]

\* Lines 269-283 of _parse_devices for node n with the stack as pushed: the
\* merge passes in the order of the _DeviceInfo call, then
\* CmsisPackDevice.__init__.
BuildDevice(n, stack) ==
    DeviceInfo(n, stack,
               ExtractFamilies(stack),
               FoldProcessors([map |-> <<>>, attrib |-> procAttrib],
                              StackProcessors(stack)),
               FoldMemories([map |-> <<>>, warned |-> warned, logged |-> 0,
                             same |-> 0, exc |-> "none"],
                            StackElems(stack, "mems"),
                            [pack |-> pdsc.pack, node |-> NodeElement(n)]),
               GetPartNumberFromElement(NodeElement(n)))

\* What _parse_devices(n) assigns: the node's state is pushed and, for a
\* device or variant, b is what creating its CmsisPackDevice came to.
Pushed(n, stack, b) ==
    /\ stateStack' = stack
    /\ IF n \in DeviceNodes
       THEN /\ procAttrib' = b.attrib
            /\ warned' = b.warned
            /\ warnings' = warnings + b.logged
            /\ evictions' = evictions + b.same
            /\ devices' = IF b.exc = "none" THEN Append(devices, b.info) ELSE devices
            /\ walkPc' = IF b.exc = "none" THEN "walk" ELSE "aborted"
       ELSE UNCHANGED <<procAttrib, warned, warnings, evictions, devices, walkPc>>

\* _parse_devices(n) up to its loop over the children.
Enter(n) == Pushed(n, Append(stateStack, n), BuildDevice(n, Append(stateStack, n)))

\* __init__ calls _parse_devices for the next <family>.
WalkFamily ==
    /\ walkPc = "walk"
    /\ stateStack = <<>>
    /\ famIdx < Len(Families)
    /\ famIdx' = famIdx + 1
    /\ childIdx' = <<0>>
    /\ Enter(Families[famIdx + 1])
    /\ UNCHANGED <<pdsc, dbgVars, devVars, memMap, memCur, memCtx, memPc, memFolds>>

\* The loop over the children calls _parse_devices for the next child.
WalkChild ==
    /\ walkPc = "walk"
    /\ stateStack # <<>>
    /\ LET top == Len(stateStack)
           kids == Children[stateStack[top]]
       IN  /\ childIdx[top] < Len(kids)
           /\ childIdx' = Append([childIdx EXCEPT ![top] = @ + 1], 0)
           /\ Enter(kids[childIdx[top] + 1])
    /\ UNCHANGED <<pdsc, famIdx, dbgVars, devVars, memMap, memCur, memCtx, memPc, memFolds>>

\* A pop that takes the outermost state instead of the innermost.
PoppedFirst(stack) == Tail(stack)

\* self._state_stack.pop()
Popped(stack) == SubSeq(stack, 1, Len(stack) - 1)

\* The children are done: _parse_devices pops the state and returns.
WalkReturn ==
    /\ walkPc = "walk"
    /\ stateStack # <<>>
    /\ LET top == Len(stateStack)
       IN  /\ childIdx[top] = Len(Children[stateStack[top]])
           /\ stateStack' = Popped(stateStack)
           /\ childIdx' = SubSeq(childIdx, 1, top - 1)
    /\ UNCHANGED <<pdsc, procAttrib, famIdx, devices, walkPc, dbgVars, memVars, devVars>>

\* Every family is walked: __init__ returns.
WalkDone ==
    /\ walkPc = "walk"
    /\ stateStack = <<>>
    /\ famIdx = Len(Families)
    /\ walkPc' = "done"
    /\ UNCHANGED <<pdsc, procAttrib, stateStack, childIdx, famIdx, devices, dbgVars, memVars,
                   devVars>>

WalkNext == WalkFamily \/ WalkChild \/ WalkReturn \/ WalkDone

\* No element of any category on any node.
NoElems == [n \in Nodes |-> <<>>]

WalkIdle ==
    /\ pdsc = [pack |-> "none", attrib |-> [n \in Nodes |-> <<>>],
               procs |-> NoElems, mems |-> NoElems, algos |-> NoElems,
               debugs |-> NoElems, dps |-> NoElems, aps |-> NoElems]
    /\ procAttrib = NoElems
    /\ stateStack = <<>> /\ childIdx = <<>> /\ famIdx = 0
    /\ devices = <<>> /\ walkPc = "idle"

\* The state after __init__ has parsed the description and before the walk.
WalkStart ==
    /\ procAttrib = pdsc.procs
    /\ stateStack = <<>> /\ childIdx = <<>> /\ famIdx = 0
    /\ devices = <<>> /\ walkPc = "walk"
    /\ warned = FALSE /\ warnings = 0 /\ evictions = 0
    /\ memMap = <<>> /\ memCur = [elem |-> <<>>, exc |-> "none"]
    /\ memCtx = [pack |-> "none", node |-> [tag |-> "device", attrib |-> <<>>]]
    /\ memPc = "idle" /\ memFolds = 0
    /\ DebugIdle /\ DevIdle

-----------------------------------------------------------------------------
(* The walk over descriptions whose nodes may lack their name attributes.  *)

\* The attributes a node may carry, by tag.
NodeAttribs(n) ==
    IF Tags[n] = "family"
    THEN {v @@ f : v \in OptAttr("Dvendor", {"v:1"}), f \in OptAttr("Dfamily", {"f"})}
    ELSE IF Tags[n] = "subFamily" THEN OptAttr("DsubFamily", {"s"})
    ELSE IF Tags[n] = "device" THEN OptAttr("Dname", {"d"})
    ELSE {d @@ v : d \in OptAttr("Dname", {"d"}), v \in OptAttr("Dvariant", {"v"})}

\* Every node carries one <algorithm> of its own, with the node number as start.
NodeAlgos == [n \in Nodes |-> <<[name |-> "flm", start |-> ToString(n), size |-> "1"]>>]

\* The ways the seven nodes carry their attributes.
TreeAttribs ==
    {<<a1, a2, a3, a4, a5, a6, a7>> :
        a1 \in NodeAttribs(1), a2 \in NodeAttribs(2), a3 \in NodeAttribs(3),
        a4 \in NodeAttribs(4), a5 \in NodeAttribs(5), a6 \in NodeAttribs(6),
        a7 \in NodeAttribs(7)}

TreeDocs ==
    {[pack |-> "zip", attrib |-> a, procs |-> NoElems, mems |-> NoElems,
      algos |-> NodeAlgos, debugs |-> NoElems, dps |-> NoElems, aps |-> NoElems] :
        a \in TreeAttribs}

TreeInit == pdsc \in TreeDocs /\ WalkStart

SpecTree == TreeInit /\ [][WalkNext]_vars

-----------------------------------------------------------------------------
(* The walk over descriptions with <processor> elements from the family    *)
(* down to the variant.                                                    *)

\* Every node named as the schema requires.
FullAttribs ==
    [n \in Nodes |->
        IF Tags[n] = "family" THEN [Dvendor |-> "v:1", Dfamily |-> "f"]
        ELSE IF Tags[n] = "subFamily" THEN [DsubFamily |-> "s"]
        ELSE IF Tags[n] = "device" THEN [Dname |-> "d"]
        ELSE [Dvariant |-> "v"]]

\* The <processor> elements a node may hold: none, or one.
ProcChoices ==
    {<<>>} \cup {<<p @@ c>> : p \in OptAttr("Pname", {"A"}),
                             c \in OptAttr("Dcore", {"M0", "M4"})}

ProcDocs ==
    {[pack |-> "zip", attrib |-> FullAttribs,
      procs |-> <<p1, p2, p3, p4, p5, <<>>, <<>>>>, mems |-> NoElems,
      algos |-> NoElems, debugs |-> NoElems, dps |-> NoElems, aps |-> NoElems] :
        p1 \in ProcChoices, p2 \in {<<>>, <<[Pname |-> "A", Dcore |-> "M0"]>>},
        p3 \in ProcChoices, p4 \in ProcChoices, p5 \in {<<[Pname |-> "A"]>>}}

ProcInit == pdsc \in ProcDocs /\ WalkStart

SpecProc == ProcInit /\ [][WalkNext]_vars

-----------------------------------------------------------------------------
(* CmsisPackDevice: the debug topology.                                    *)

\* APv1Address(index, dp) and APv2Address(address, dp).
APv1Address(index, dp) == [ver |-> 1, addr |-> index, dp |-> dp]
APv2Address(address, dp) == [ver |-> 2, addr |-> address, dp |-> dp]

\* ProcessorInfo(name=..., total_units=...): the other fields keep the
\* defaults of the dataclass.
ProcessorInfo(name, total_units) ==
    [name |-> name, unit |-> -1, total_units |-> total_units,
     ap_address |-> APv1Address(-1, 0), address |-> 0, svd_path |-> None,
     default_reset_sequence |-> "ResetSystem"]

\* _get_int_attribute: the value, or MalformedCmsisPackError. default is
\* None or Some(int).
GetIntAttribute(elem, name, default) ==
    IF name \notin DOMAIN elem
    THEN IF default = None
         THEN [exc |-> "MalformedCmsisPackError", val |-> 0]
         ELSE [exc |-> "none", val |-> default[1]]
    ELSE IF ~IsIntLiteral(elem[name])
    THEN [exc |-> "MalformedCmsisPackError", val |-> 0]
    ELSE [exc |-> "none", val |-> IntOf(elem[name])]

\* x in list
InList(x, list) == \E i \in 1..Len(list) : list[i] = x

\* The topology fields of the device with the counts of the constructions
\* run so far, as the record the construction steps pass along.
Topology ==
    [validDps |-> validDps, apids |-> apids, processorsMap |-> processorsMap,
     processorsApMap |-> processorsApMap, builtApidMap |-> builtApidMap,
     dpBuilds |-> dpBuilds, apBuilds |-> apBuilds]

\* The body of the loop of _build_valid_dps, given what _get_int_attribute
\* came to.
DpAppended(valid, dp) == IF dp.exc = "none" THEN Append(valid, dp.val) ELSE valid

RECURSIVE AppendValidDps(_, _)
AppendValidDps(valid, debugports) ==
    IF debugports = <<>> THEN valid
    ELSE AppendValidDps(DpAppended(valid, GetIntAttribute(Head(debugports), "__dp", None)),
                        Tail(debugports))

\* The default of _build_valid_dps when no <debugport> gave an index.
DefaultDp(valid) == IF Len(valid) = 0 THEN <<0>> ELSE valid

\* _build_valid_dps
BuildValidDps(t) ==
    [t EXCEPT !.validDps = DefaultDp(AppendValidDps(@, devInfo.debugports)),
              !.dpBuilds = @ + 1]

\* The property valid_dps: the device after the read; the value returned is
\* its validDps.
ValidDps(t) == IF t.validDps = <<>> THEN BuildValidDps(t) ELSE t

\* The address of an access port on debug port ap_dp, or the error of its
\* index or address attribute.
ApAddress(accessport, ap_dp) ==
    LET a == IF accessport.tag = "accessportV1"
             THEN GetIntAttribute(accessport, "index", None)
             ELSE GetIntAttribute(accessport, "address", None)
    IN  [exc |-> a.exc,
         val |-> IF accessport.tag = "accessportV1"
                 THEN APv1Address(a.val, ap_dp)
                 ELSE APv2Address(a.val, ap_dp)]

\* The last statements of the loop of _handle_accessports.
ApStored(t, ap_address, apid) ==
    IF ap_address.exc # "none" \/ apid.exc # "none" THEN t
    ELSE [t EXCEPT !.apids = DictSet(@, apid.val, ap_address.val)]

\* The body of the loop of _handle_accessports; reading valid_dps to check
\* __dp may build the list.
AccessportStep(t, accessport, ap_dp) ==
    IF ap_dp.exc # "none" THEN t
    ELSE ApStored(ValidDps(t), ApAddress(accessport, ap_dp.val),
                  GetIntAttribute(accessport, "__apid", None))

\* _handle_accessports
RECURSIVE HandleAccessports(_, _)
HandleAccessports(t, accessports) ==
    IF accessports = <<>> THEN t
    ELSE HandleAccessports(
             AccessportStep(t, Head(accessports),
                            GetIntAttribute(Head(accessports), "__dp", Some(0))),
             Tail(accessports))

\* The name of a processor: Pname, else Dcore, else None (the element is
\* malformed).
ProcName(proc) ==
    IF "Pname" \in DOMAIN proc THEN Some(proc.Pname)
    ELSE IF "Dcore" \in DOMAIN proc THEN Some(proc.Dcore)
    ELSE None

\* A loop body without the check for an existing processor of the name.
ProcessorStepReplaces(map, pname, punits) ==
    IF pname = None \/ punits.exc # "none" THEN map
    ELSE DictSet(map, pname[1], ProcessorInfo(pname[1], punits.val))

\* The body of the loop of _handle_processors.
ProcessorStep(map, pname, punits) ==
    IF pname = None \/ punits.exc # "none" THEN map
    ELSE IF DictHas(map, pname[1]) THEN map
    ELSE DictSet(map, pname[1], ProcessorInfo(pname[1], punits.val))

RECURSIVE FoldProcessorInfos(_, _)
FoldProcessorInfos(map, procs) ==
    IF procs = <<>> THEN map
    ELSE FoldProcessorInfos(
             ProcessorStep(map, ProcName(Head(procs)),
                           GetIntAttribute(Head(procs), "Punits", Some(1))),
             Tail(procs))

\* The dummy processor of _handle_processors.
UnknownAdded(map) ==
    IF Len(map) = 0 THEN DictSet(map, "unknown", ProcessorInfo("unknown", 1)) ELSE map

\* _handle_processors
HandleProcessors(t) ==
    [t EXCEPT !.processorsMap = UnknownAdded(FoldProcessorInfos(@, devInfo.processors))]

\* The outcomes of resolving the AP address of a <debug> element: the
\* device as left, and the address or MalformedCmsisPackError.
ApFailed(t) ==
    [t |-> t, exc |-> "MalformedCmsisPackError", val |-> APv1Address(-1, 0)]
ApResolved(t, ap_address) == [t |-> t, exc |-> "none", val |-> ap_address]

\* The __apid branch of _build_aps_map.
ApByApid(t, apid) ==
    IF apid.exc # "none" THEN ApFailed(t)
    ELSE IF ~DictHas(t.apids, apid.val) THEN ApFailed(t)
    ELSE ApResolved(t, DictGet(t.apids, apid.val))

\* The __ap branch once __dp is read and valid_dps has been read.
ApChecked(t, dp_index, ap_index) ==
    IF ~InList(dp_index, t.validDps) THEN ApFailed(t)
    ELSE IF ap_index.exc # "none" THEN ApFailed(t)
    ELSE ApResolved(t, APv1Address(ap_index.val, dp_index))

\* The __ap branch of _build_aps_map.
ApByIndex(t, debug, dp_index) ==
    IF dp_index.exc # "none" THEN ApFailed(t)
    ELSE ApChecked(ValidDps(t), dp_index.val, GetIntAttribute(debug, "__ap", None))

\* The resolution with the two attribute tests in the other order: __ap is
\* looked at before __apid.
DebugApIndexFirst(t, debug) ==
    IF "__ap" \in DOMAIN debug
    THEN ApByIndex(t, debug, GetIntAttribute(debug, "__dp", Some(0)))
    ELSE IF "__apid" \in DOMAIN debug
    THEN ApByApid(t, GetIntAttribute(debug, "__apid", None))
    ELSE ApResolved(t, APv1Address(0, 0))

\* The AP address of a <debug> element: __apid, else __ap, else AP #0.
DebugAp(t, debug) ==
    IF "__apid" \in DOMAIN debug
    THEN ApByApid(t, GetIntAttribute(debug, "__apid", None))
    ELSE IF "__ap" \in DOMAIN debug
    THEN ApByIndex(t, debug, GetIntAttribute(debug, "__dp", Some(0)))
    ELSE ApResolved(t, APv1Address(0, 0))

\* The assignments to the ProcessorInfo, in their order: unit, ap_address,
\* address, svd_path, default_reset_sequence. An error of Punit leaves them
\* all; an error of address comes after the first two.
Assigned(proc, debug, ap_address, unit, address) ==
    IF unit.exc # "none" THEN proc
    ELSE IF address.exc # "none"
    THEN [proc EXCEPT !.unit = unit.val, !.ap_address = ap_address]
    ELSE [proc EXCEPT !.unit = unit.val,
                      !.ap_address = ap_address,
                      !.address = address.val,
                      !.svd_path = AttribGet(debug, "svd"),
                      !.default_reset_sequence =
                          IF "defaultResetSequence" \in DOMAIN debug
                          THEN debug.defaultResetSequence ELSE @]

\* The processor a <debug> element names: its Pname, else the first key of
\* the processor map.
DebugPname(map, debug) == IF "Pname" \in DOMAIN debug THEN debug.Pname ELSE map[1].k

\* The second half of the loop body of _build_aps_map, given the address.
DebugAssign(debug, pname, ap) ==
    IF ap.exc # "none" THEN ap.t
    ELSE [ap.t EXCEPT !.processorsMap =
              DictSet(@, pname,
                      Assigned(DictGet(@, pname), debug, ap.val,
                               GetIntAttribute(debug, "Punit", Some(0)),
                               GetIntAttribute(debug, "address", Some(0))))]

\* The body of the loop of _build_aps_map over the <debug> elements.
DebugStep(t, debug, pname) ==
    IF ~DictHas(t.processorsMap, pname) THEN t
    ELSE DebugAssign(debug, pname, DebugAp(t, debug))

RECURSIVE FoldDebugAps(_, _)
FoldDebugAps(t, debugs) ==
    IF debugs = <<>> THEN t
    ELSE FoldDebugAps(DebugStep(t, Head(debugs), DebugPname(t.processorsMap, Head(debugs))),
                      Tail(debugs))

\* _build_aps_map
BuildApsMap(t) ==
    FoldDebugAps(
        HandleProcessors(
            HandleAccessports([t EXCEPT !.builtApidMap = TRUE, !.apBuilds = @ + 1],
                              devInfo.accessports)),
        devInfo.debugs)

\* The properties apid_map and processors_map: the device after the read.
ApidMap(t) == IF ~t.builtApidMap THEN BuildApsMap(t) ELSE t
ProcessorsMap(t) == IF t.processorsMap = <<>> THEN BuildApsMap(t) ELSE t

\* {proc.ap_address: proc for proc in processors_map.values()}
RECURSIVE FoldApMap(_, _)
FoldApMap(map, procs) ==
    IF procs = <<>> THEN map
    ELSE FoldApMap(DictSet(map, Head(procs).ap_address, Head(procs)), Tail(procs))

ApMapped(t) ==
    [t EXCEPT !.processorsApMap = FoldApMap(<<>>, DictValues(t.processorsMap))]

\* The property processors_ap_map: the device after the read.
ProcessorsApMap(t) ==
    IF t.processorsApMap = <<>> THEN ApMapped(ProcessorsMap(t)) ELSE t

-----------------------------------------------------------------------------
(* CmsisPackDevice: the memory map.                                        *)

\* _get_bool_attribute(elem, name), default False: the value is stripped
\* and lowered, then compared; StripLower is that conversion on the
\* spellings of the model.
StripLower(str) ==
    IF str \in {"True", "TRUE", " true "} THEN "true"
    ELSE IF str = " 1 " THEN "1"
    ELSE str
GetBoolAttribute(elem, name) ==
    IF name \notin DOMAIN elem THEN FALSE
    ELSE IF StripLower(elem[name]) \in {"true", "1"} THEN TRUE
    ELSE IF StripLower(elem[name]) \in {"false", "0"} THEN FALSE
    ELSE FALSE

\* The characters of the access strings of the model ('p' in access).
AccessChars(access) ==
    IF access = "rx" THEN {"r", "x"}
    ELSE IF access = "rwx" THEN {"r", "w", "x"}
    ELSE IF access = "rwp" THEN {"r", "w", "p"}
    ELSE {}

\* 'RAM' in name, on the ids of the model.
NameHasRAM(name) == name \in {"IRAM1", "IRAM2"}

\* The name, access and type of a memory element; exc is "KeyError" for a
\* named element without access and "continue" for one with neither name
\* nor id.
MemKind(elem) ==
    IF "name" \in DOMAIN elem
    THEN IF "access" \notin DOMAIN elem
         THEN [exc |-> "KeyError", name |-> "", access |-> "", type |-> ""]
         ELSE [exc |-> "none", name |-> elem.name, access |-> elem.access,
               type |-> IF "p" \in AccessChars(elem.access) THEN "device"
                        ELSE IF "w" \in AccessChars(elem.access) THEN "ram"
                        ELSE "rom"]
    ELSE IF "id" \in DOMAIN elem
    THEN IF NameHasRAM(elem.id)
         THEN [exc |-> "none", name |-> elem.id, access |-> "rwx", type |-> "ram"]
         ELSE [exc |-> "none", name |-> elem.id, access |-> "rx", type |-> "rom"]
    ELSE [exc |-> "continue", name |-> "", access |-> "", type |-> ""]

\* The region MEMORY_TYPE_CLASS_MAP[type](**attrs) creates. src is the
\* position of the element in _info.memories; the flash fields are unset.
NewRegion(elem, src, kind, range) ==
    [type |-> kind.type, name |-> kind.name,
     start |-> range.start, length |-> range.size,
     end |-> range.start + range.size - 1,
     access |-> kind.access,
     is_default |-> GetBoolAttribute(elem, "default"),
     is_boot_memory |-> GetBoolAttribute(elem, "startup"),
     is_testable |-> GetBoolAttribute(elem, "default"),
     alias |-> AttribGet(elem, "alias"),
     sector_size |-> 0, page_size |-> 0, algo |-> None, flm |-> None,
     src |-> src]

\* The end of the loop body of _build_memory_regions: the flag, the list,
\* the first default RAM.
RegionAppended(m, region) ==
    [m EXCEPT !.sawStartup = @ \/ region.is_boot_memory,
              !.regions = Append(@, region),
              !.defaultRam = IF @ = None /\ region.type = "ram" /\ region.is_default
                             THEN Some(region) ELSE @]

\* The loop body of _build_memory_regions; KeyError and ValueError are
\* ignored.
RegionStep(m, elem, src, kind, range) ==
    IF kind.exc # "none" \/ range.exc # "none" THEN m
    ELSE RegionAppended(m, NewRegion(elem, src, kind, range))

RECURSIVE FoldRegions(_, _, _)
FoldRegions(m, elems, src) ==
    IF elems = <<>> THEN m
    ELSE FoldRegions(RegionStep(m, Head(elems), src, MemKind(Head(elems)),
                                GetStartAndSize(Head(elems))),
                     Tail(elems), src + 1)

\* _build_memory_regions
BuildMemoryRegions(m) == FoldRegions(m, devInfo.memories, 1)

\* _get_containing_region: the first region that contains addr, or None.
RECURSIVE GetContainingRegion(_, _)
GetContainingRegion(list, addr) ==
    IF list = <<>> THEN None
    ELSE IF Head(list).start <= addr /\ addr <= Head(list).end THEN Some(Head(list))
    ELSE GetContainingRegion(Tail(list), addr)

\* A test that looks at the start of the region only.
CoversStart(region, range) ==
    range.start <= region.start /\ region.start <= range.start + range.size - 1

\* The region fits within the range of the algorithm.
Covers(region, range) ==
    /\ range.start <= region.start /\ region.start <= range.start + range.size - 1
    /\ range.start <= region.end /\ region.end <= range.start + range.size - 1

\* _find_matching_algo: the first algorithm whose range covers the region,
\* or KeyError.
RECURSIVE FindMatchingAlgo(_, _)
RECURSIVE AlgoMatch(_, _, _)
AlgoMatch(region, algos, range) ==
    IF range.exc # "none" THEN [exc |-> range.exc, val |-> <<>>]
    ELSE IF Covers(region, range)
    THEN [exc |-> "none", val |-> Head(algos)]
    ELSE FindMatchingAlgo(region, Tail(algos))
FindMatchingAlgo(region, algos) ==
    IF algos = <<>> THEN [exc |-> "KeyError", val |-> <<>>]
    ELSE AlgoMatch(region, algos, GetStartAndSize(Head(algos)))

\* The page size below which _build_flash_regions takes a sector size.
SmallPage == 32

\* The RAM size used when RAMstart lies in no known region: 128 * 1024.
ArbitraryRamSize == 131072

\* The files the algorithms of the device name.
AlgoFiles ==
    {devInfo.algos[i].name :
        i \in {j \in 1..Len(devInfo.algos) : "name" \in DOMAIN devInfo.algos[j]}}

\* What the decoder may return for a file: page_size and sector_sizes, the
\* (offset, size) pairs by offset.
DecodedAlgos ==
    {[page_size |-> 8, sector_sizes |-> <<<<0, 16>>>>],
     [page_size |-> 8, sector_sizes |-> <<<<0, 64>>, <<1, 16>>>>],
     [page_size |-> 64, sector_sizes |-> <<<<0, 16>>, <<1, 64>>>>],
     [page_size |-> 64, sector_sizes |-> <<<<0, 16>>, <<3, 64>>>>],
     [page_size |-> 32, sector_sizes |-> <<<<0, 64>>>>],
     [page_size |-> 8, sector_sizes |-> <<>>],
     [page_size |-> 64, sector_sizes |-> <<>>]}
NoAlgo == [page_size |-> 0, sector_sizes |-> <<>>]

\* What get_file followed by PackFlashAlgo may come to for one file: a
\* decoded algorithm, the decoder's error, or the error of a missing file,
\* which is KeyError from ZipFile.read and FileNotFoundError from
\* Path.read_bytes and from a device without pack.
LoadOutcomes(pack) ==
    IF pack = "none" THEN {[exc |-> "FileNotFoundError", algo |-> NoAlgo]}
    ELSE {[exc |-> "none", algo |-> a] : a \in DecodedAlgos}
         \cup {[exc |-> "FlashAlgoException", algo |-> NoAlgo]}
         \cup {[exc |-> IF pack = "zip" THEN "KeyError" ELSE "FileNotFoundError",
                algo |-> NoAlgo]}

\* _load_flash_algo: the algorithm, None for FileNotFoundError, or the
\* exception that is not caught. loads gives the outcome for each file; the
\* PackFlashAlgo keeps the file whose data it was decoded from.
LoadFlashAlgo(filename, loads) ==
    IF loads[filename].exc = "FileNotFoundError" THEN [exc |-> "none", val |-> None]
    ELSE IF loads[filename].exc # "none" THEN [exc |-> loads[filename].exc, val |-> None]
    ELSE [exc |-> "none",
          val |-> Some([file |-> filename,
                        page_size |-> loads[filename].algo.page_size,
                        sector_sizes |-> loads[filename].algo.sector_sizes])]

\* min(s[1] for s in sector_sizes), for a table that is not empty.
RECURSIVE MinSector(_)
MinSector(sector_sizes) ==
    IF Len(sector_sizes) = 1 THEN sector_sizes[1][2]
    ELSE IF sector_sizes[1][2] <= MinSector(Tail(sector_sizes))
    THEN sector_sizes[1][2]
    ELSE MinSector(Tail(sector_sizes))

\* The page size _build_flash_regions chooses; min() of an empty table
\* raises ValueError.
PageSize(pack_algo) ==
    IF pack_algo.page_size > SmallPage THEN [exc |-> "none", val |-> pack_algo.page_size]
    ELSE IF pack_algo.sector_sizes = <<>> THEN [exc |-> "ValueError", val |-> 0]
    ELSE [exc |-> "none", val |-> MinSector(pack_algo.sector_sizes)]

\* The size of the RAM at ram_start when RAMsize is not given.
ContainedSize(containing_region, ram_start) ==
    IF containing_region = None THEN ArbitraryRamSize
    ELSE containing_region[1].length - (ram_start - containing_region[1].start)

\* The RAM with an explicit RAMstart.
ExplicitRam(algo_element, list, ram_start, ram_size) ==
    IF ram_start.exc # "none" THEN [exc |-> ram_start.exc, val |-> <<>>]
    ELSE IF "RAMsize" \in DOMAIN algo_element
    THEN IF ram_size.exc # "none" THEN [exc |-> ram_size.exc, val |-> <<>>]
         ELSE [exc |-> "none", val |-> [start |-> ram_start.val, length |-> ram_size.val]]
    ELSE [exc |-> "none",
          val |-> [start |-> ram_start.val,
                   length |-> ContainedSize(GetContainingRegion(list, ram_start.val),
                                            ram_start.val)]]

\* The RAM for the algorithm: KeyError of RAMstart selects the default RAM,
\* ValueError of RAMstart or RAMsize is not caught.
RamForAlgo(algo_element, m) ==
    IF "RAMstart" \notin DOMAIN algo_element
    THEN [exc |-> "none",
          val |-> [start |-> m.defaultRam[1].start, length |-> m.defaultRam[1].length]]
    ELSE ExplicitRam(algo_element, m.regions, IntAttrib(algo_element, "RAMstart"),
                     IntAttrib(algo_element, "RAMsize"))

\* f"{n:#x}"
HexDigits == <<"0", "1", "2", "3", "4", "5", "6", "7", "8", "9",
               "a", "b", "c", "d", "e", "f">>
RECURSIVE HexNumber(_)
HexNumber(n) ==
    IF n < 16 THEN HexDigits[n + 1]
    ELSE HexNumber(n \div 16) \o HexDigits[(n % 16) + 1]
HexLiteral(n) == "0x" \o HexNumber(n)

\* The flag as a split that forgot the assignment would leave it.
SawLeftUnset == FALSE

\* What _split_flash_region_by_sector_size assigns to _saw_startup when it
\* picks the first flash as boot memory.
SawAfterPick == TRUE

\* The FlashRegion of one sector-size range.
FlashRegion(region, name, start, end, sector_size, page_size, algo, flm, is_boot) ==
    [type |-> "flash", name |-> name,
     start |-> start, length |-> end - start + 1, end |-> end,
     access |-> region.access,
     is_default |-> region.is_default,
     is_boot_memory |-> is_boot,
     is_testable |-> region.is_testable,
     alias |-> region.alias,
     sector_size |-> sector_size, page_size |-> page_size,
     algo |-> Some(algo), flm |-> Some(flm),
     src |-> region.src]

\* A region page size that is not limited.
RegionPageSizeUnlimited(page_size, sector_size) == page_size

\* "Limit page size": the page size of one sector range.
RegionPageSize(page_size, sector_size) ==
    IF page_size > sector_size THEN sector_size ELSE page_size

\* A range end that forgot the start of the next range.
RangeEndWhole(j, region, flm) == region.end

\* The end address of sector range j (from 1): the end of the region for
\* the last range, else the start of the next range - 1.
RangeEnd(j, region, flm) ==
    IF j >= Len(flm.sector_sizes) THEN region.end
    ELSE region.start + flm.sector_sizes[j + 1][1] - 1

\* The loop body of _split_flash_region_by_sector_size for range j (from
\* 1); acc is [out, saw]: the regions yielded and _saw_startup.
SubRange(acc, j, region, page_size, algo, flm) ==
    LET sector_size == flm.sector_sizes[j][2]
        start == region.start + flm.sector_sizes[j][1]
        end == RangeEnd(j, region, flm)
    IN  IF end < start THEN acc
        ELSE [out |-> Append(acc.out,
                  FlashRegion(region,
                              IF Len(flm.sector_sizes) > 1
                              THEN region.name \o "_" \o HexLiteral(sector_size)
                              ELSE region.name,
                              start, end, sector_size,
                              RegionPageSize(page_size, sector_size),
                              algo, flm,
                              IF ~acc.saw THEN TRUE ELSE region.is_boot_memory)),
              saw |-> IF ~acc.saw THEN SawAfterPick ELSE acc.saw]

\* _split_flash_region_by_sector_size, as list() consumes it.
RECURSIVE SplitFlashRegionBySectorSize(_, _, _, _, _, _)
SplitFlashRegionBySectorSize(acc, j, region, page_size, algo, flm) ==
    IF j > Len(flm.sector_sizes) THEN acc
    ELSE SplitFlashRegionBySectorSize(SubRange(acc, j, region, page_size, algo, flm),
                                      j + 1, region, page_size, algo, flm)

\* The loop state of _build_flash_regions once the region is split: f is
\* [del, add, saw, exc], the two lists, _saw_startup and the exception
\* that left the loop.
SplitAdded(f, region, split) ==
    [del |-> Append(f.del, region), add |-> f.add \o split.out,
     saw |-> split.saw, exc |-> "none"]

\* The loop body from the choice of the page size on.
Converted(f, region, flm, page_size, ram) ==
    IF page_size.exc # "none" THEN [f EXCEPT !.exc = page_size.exc]
    ELSE IF ram.exc # "none" THEN [f EXCEPT !.exc = ram.exc]
    ELSE SplitAdded(f, region,
             SplitFlashRegionBySectorSize(
                 [out |-> <<>>, saw |-> f.saw], 1, region, page_size.val,
                 [page_size |-> page_size.val, ram |-> ram.val], flm))

\* The loop body from the result of _load_flash_algo on.
AlgoLoaded(f, m, region, algo_element, pack_algo) ==
    IF pack_algo.exc # "none" THEN [f EXCEPT !.exc = pack_algo.exc]
    ELSE IF pack_algo.val = None THEN f
    ELSE Converted(f, region, pack_algo.val[1], PageSize(pack_algo.val[1]),
                   RamForAlgo(algo_element, m))

\* The loop body from the result of _find_matching_algo on: KeyError is
\* caught there, the KeyError of a missing name attribute is not.
AlgoFound(f, m, region, found, loads) ==
    IF found.exc = "KeyError" THEN f
    ELSE IF found.exc # "none" THEN [f EXCEPT !.exc = found.exc]
    ELSE IF "name" \notin DOMAIN found.val THEN [f EXCEPT !.exc = "KeyError"]
    ELSE AlgoLoaded(f, m, region, found.val, LoadFlashAlgo(found.val.name, loads))

\* The loop body of _build_flash_regions.
FlashStep(f, m, region, loads) ==
    IF f.exc # "none" \/ region.type # "rom" THEN f
    ELSE AlgoFound(f, m, region, FindMatchingAlgo(region, devInfo.algos), loads)

RECURSIVE FoldFlash(_, _, _, _)
FoldFlash(f, m, list, loads) ==
    IF list = <<>> THEN f
    ELSE FoldFlash(FlashStep(f, m, Head(list), loads), m, Tail(list), loads)

\* list.remove(x): the first element equal to x is removed.
RECURSIVE RemoveFirst(_, _)
RemoveFirst(list, x) ==
    IF list = <<>> THEN <<>>
    ELSE IF Head(list) = x THEN Tail(list)
    ELSE <<Head(list)>> \o RemoveFirst(Tail(list), x)
RECURSIVE RemoveEach(_, _)
RemoveEach(list, del) ==
    IF del = <<>> THEN list ELSE RemoveEach(RemoveFirst(list, Head(del)), Tail(del))

\* The update of the regions list that ends _build_flash_regions; an
\* exception leaves the list alone and keeps what was assigned to
\* _saw_startup.
FlashApplied(m, f) ==
    IF f.exc # "none" THEN [m EXCEPT !.sawStartup = f.saw, !.exc = f.exc]
    ELSE [m EXCEPT !.sawStartup = f.saw, !.regions = RemoveEach(@, f.del) \o f.add]

\* _build_flash_regions
BuildFlashRegions(m, loads) ==
    IF m.defaultRam = None THEN m
    ELSE FlashApplied(m, FoldFlash([del |-> <<>>, add |-> <<>>, saw |-> m.sawStartup,
                                    exc |-> "none"],
                                   m, m.regions, loads))

\* The memory-map fields of the device with the count of the constructions
\* run so far and the exception of the running access.
MapState ==
    [regions |-> regions, sawStartup |-> sawStartup, defaultRam |-> defaultRam,
     memoryMap |-> memoryMap, memBuilds |-> memBuilds, exc |-> "none"]

\* The last statement of the construction in memory_map.
MapStored(m) == IF m.exc # "none" THEN m ELSE [m EXCEPT !.memoryMap = Some(m.regions)]

\* The property memory_map: the device after the read, with the exception
\* that left it.
MemoryMap(m, loads) ==
    IF m.memoryMap # None THEN m
    ELSE MapStored(BuildFlashRegions(BuildMemoryRegions([m EXCEPT !.memBuilds = @ + 1]),
                                     loads))

-----------------------------------------------------------------------------
(* The accesses to the lazily built properties of one CmsisPackDevice.     *)

MaxAccesses == 2

Props == {"memory_map", "valid_dps", "apid_map", "processors_map", "processors_ap_map"}

\* The state of a device after CmsisPackDevice.__init__.
DevStart ==
    /\ regions = <<>> /\ sawStartup = FALSE /\ defaultRam = None /\ memoryMap = None
    /\ validDps = <<>> /\ apids = <<>> /\ processorsMap = <<>>
    /\ processorsApMap = <<>> /\ builtApidMap = FALSE
    /\ memBuilds = 0 /\ dpBuilds = 0 /\ apBuilds = 0
    /\ accesses = 0 /\ ret = None /\ first = [p \in Props |-> None]

\* An access returns: the result is recorded, with the first of its property.
Accessed(prop, exc, val) ==
    /\ accesses' = accesses + 1
    /\ ret' = Some([prop |-> prop, exc |-> exc, val |-> val])
    /\ first' = IF first[prop] = None
                THEN [first EXCEPT ![prop] = Some([exc |-> exc, val |-> val])]
                ELSE first

\* What a topology property returns from the device as the read left it.
Returned(t, prop) ==
    IF prop = "valid_dps" THEN t.validDps
    ELSE IF prop = "apid_map" THEN t.apids
    ELSE IF prop = "processors_map" THEN t.processorsMap
    ELSE t.processorsApMap

\* A topology property is read.
TopoAccess(t, prop) ==
    /\ validDps' = t.validDps
    /\ apids' = t.apids
    /\ processorsMap' = t.processorsMap
    /\ processorsApMap' = t.processorsApMap
    /\ builtApidMap' = t.builtApidMap
    /\ dpBuilds' = t.dpBuilds
    /\ apBuilds' = t.apBuilds
    /\ Accessed(prop, "none", Returned(t, prop))
    /\ UNCHANGED <<devInfo, regions, sawStartup, defaultRam, memoryMap, memBuilds>>
    /\ UNCHANGED <<dbgVars, memVars, walkVars>>

\* memory_map is read.
MapAccess(m) ==
    /\ regions' = m.regions
    /\ sawStartup' = m.sawStartup
    /\ defaultRam' = m.defaultRam
    /\ memoryMap' = m.memoryMap
    /\ memBuilds' = m.memBuilds
    /\ Accessed("memory_map", m.exc, IF m.exc = "none" THEN m.memoryMap[1] ELSE <<>>)
    /\ UNCHANGED <<devInfo, validDps, apids, processorsMap, processorsApMap,
                   builtApidMap, dpBuilds, apBuilds>>
    /\ UNCHANGED <<dbgVars, memVars, walkVars>>

AccessMemoryMap ==
    /\ accesses < MaxAccesses
    /\ \E loads \in [AlgoFiles -> LoadOutcomes(devInfo.pack)] :
           MapAccess(MemoryMap(MapState, loads))

AccessValidDps ==
    /\ accesses < MaxAccesses
    /\ TopoAccess(ValidDps(Topology), "valid_dps")

AccessApidMap ==
    /\ accesses < MaxAccesses
    /\ TopoAccess(ApidMap(Topology), "apid_map")

AccessProcessorsMap ==
    /\ accesses < MaxAccesses
    /\ TopoAccess(ProcessorsMap(Topology), "processors_map")

AccessProcessorsApMap ==
    /\ accesses < MaxAccesses
    /\ TopoAccess(ProcessorsApMap(Topology), "processors_ap_map")

DevNext ==
    \/ AccessMemoryMap
    \/ AccessValidDps
    \/ AccessApidMap
    \/ AccessProcessorsMap
    \/ AccessProcessorsApMap

\* The resolved lists of a device whose stack holds the raw elements: what
\* the merge passes return for them.
ResolvedProcessors(raw) ==
    LET r == FoldProcessors([map |-> <<>>, attrib |-> <<raw>>],
                            [i \in 1..Len(raw) |-> <<1, i>>])
    IN  [j \in 1..Len(r.map) |-> r.attrib[1][r.map[j].v[2]]]
ResolvedMemories(raw) ==
    DictValues(FoldMemories([map |-> <<>>, warned |-> FALSE, logged |-> 0,
                             same |-> 0, exc |-> "none"],
                            raw,
                            [pack |-> "none",
                             node |-> [tag |-> "device", attrib |-> [Dname |-> "d"]]]).map)

\* The memories of the model: a ROM named by name at [0, 1], a ROM named by
\* id at [2, 3], a RAM at [4, 4].
RomA == [name |-> "a", access |-> "rx", start |-> "0", size |-> "2"]
RomB == [id |-> "IROM2", start |-> "2", size |-> "2"]
RamR == [name |-> "r", access |-> "rwx", start |-> "4", size |-> "1"]
MapMemories ==
    {ResolvedMemories(a \o b \o r) :
        a \in {<<RomA>>, <<[startup |-> "1"] @@ RomA>>},
        b \in {<<>>, <<RomB>>, <<[startup |-> " true "] @@ RomB>>},
        r \in {<<[default |-> "1"] @@ RamR>>, <<RamR>>,
               <<[name |-> "n", start |-> "4", size |-> "1"]>>}}

\* The algorithms of the model: one over both ROMs, with or without its
\* name or a RAMstart; one over the first address or over the first ROM,
\* followed by one over both ROMs.
AlgoX == [name |-> "x.flm", start |-> "0", size |-> "4"]
AlgoY == [name |-> "y.flm", start |-> "0", size |-> "4", RAMstart |-> "4", RAMsize |-> "1"]
MapAlgos ==
    {ExtractAlgos(raw) :
        raw \in {<<>>, <<AlgoX>>, <<[start |-> "0", size |-> "4"]>>,
                 <<[RAMstart |-> "4"] @@ AlgoX>>, <<[RAMstart |-> "zz"] @@ AlgoX>>,
                 <<[name |-> "x.flm", start |-> "0", size |-> "1"], AlgoY>>,
                 <<[name |-> "x.flm", start |-> "0", size |-> "2"], AlgoY>>}}

\* The devices whose memory map is built: one processor, no debug elements.
MapInfos ==
    {[pack |-> k, memories |-> mm, algos |-> aa,
      processors |-> ResolvedProcessors(<<[Dcore |-> "M0"]>>),
      debugs |-> <<>>, debugports |-> <<>>, accessports |-> <<>>] :
        k \in {"zip", "dir"}, mm \in MapMemories, aa \in MapAlgos}

MapInit == devInfo \in MapInfos /\ DevStart /\ DebugIdle /\ MemIdle /\ WalkIdle

SpecMap == MapInit /\ [][DevNext]_vars

\* The devices whose debug topology is built: one default RAM, no algorithm.
TopoProcessors ==
    {ResolvedProcessors(raw) :
        raw \in {<<>>, <<[Pname |-> "A", Dcore |-> "M0"]>>, <<[Dcore |-> "M0"]>>,
                 <<[Pname |-> "A"], [Pname |-> "B"]>>,
                 <<[Pname |-> "A", Punits |-> "x"]>>, <<[Punits |-> "2"]>>,
                 <<[Pname |-> "M0"], [Dcore |-> "M0", Punits |-> "2"]>>,
                 <<[Pname |-> "M0", Punits |-> "x"], [Dcore |-> "M0", Punits |-> "2"]>>}}
TopoDebugs ==
    {ExtractDebugs(raw) :
        raw \in {<<>>, <<<<>>>>,
                 <<[Pname |-> "A", __ap |-> "2", __dp |-> "1"]>>,
                 <<[Pname |-> "A", __apid |-> "1", __ap |-> "2"]>>,
                 <<[Pname |-> "A", __apid |-> "3", __ap |-> "2"]>>,
                 <<[Pname |-> "B", __ap |-> "1", svd |-> "b.svd"]>>,
                 <<[Pname |-> "C"]>>,
                 <<[Pname |-> "A", __ap |-> "2", address |-> "x"]>>,
                 <<[Pname |-> "A", __ap |-> "2", Punit |-> "x"]>>,
                 <<[Pname |-> "A", __ap |-> "1"], [Pname |-> "B", __ap |-> "x"]>>,
                 <<[Pname |-> "A", __ap |-> "1"],
                   [Pname |-> "A", Punit |-> "1", __ap |-> "2", address |-> "x"]>>,
                 <<[__ap |-> "3", __dp |-> "x"]>>}}
TopoDebugports ==
    {ExtractDebugports(raw) :
        raw \in {<<>>, <<[__dp |-> "1"]>>, <<[__dp |-> "0"], [__dp |-> "1"]>>,
                 <<[__dp |-> "x"]>>}}
\* The access-port elements of a device's ancestor stack, outer to inner.
TopoAccessportStacks ==
    {<<>>,
     <<[tag |-> "accessportV1", __apid |-> "1", index |-> "3", __dp |-> "1"]>>,
     <<[tag |-> "accessportV2", __apid |-> "1", address |-> "4"]>>,
     <<[tag |-> "accessportV1", __apid |-> "1"]>>,
     <<[tag |-> "accessportV1", __apid |-> "1", index |-> "1"],
       [tag |-> "accessportV1", __apid |-> "0x1", index |-> "2"]>>,
     <<[tag |-> "accessportV1", __apid |-> "1", index |-> "1"],
       [tag |-> "accessportV2", __apid |-> "1", address |-> "3"]>>,
     <<[tag |-> "accessportV1", __apid |-> "1", index |-> "1"],
       [tag |-> "accessportV1", __apid |-> "0x1", index |-> "2"],
       [tag |-> "accessportV2", __apid |-> "1", address |-> "3"]>>}
TopoAccessports == {ExtractAccessports(raw) : raw \in TopoAccessportStacks}
TopoInfos ==
    {[pack |-> "zip", memories |-> ResolvedMemories(<<[default |-> "1"] @@ RamR>>),
      algos |-> <<>>,
      processors |-> pp, debugs |-> dd, debugports |-> dp, accessports |-> ap] :
        pp \in TopoProcessors, dd \in TopoDebugs, dp \in TopoDebugports,
        ap \in TopoAccessports}

TopoInit == devInfo \in TopoInfos /\ DevStart /\ DebugIdle /\ MemIdle /\ WalkIdle

SpecTopo == TopoInit /\ [][DevNext]_vars

-----------------------------------------------------------------------------
(* The debug merge pass, one element at a time.                            *)

DebugInit == DebugIdle /\ MemIdle /\ WalkIdle /\ DevIdle

\* One iteration of the loop of _extract_items('debugs', filter).
DebugFold(e) ==
    /\ Len(dbgIn) < MaxDebugs
    /\ dbgMap' = DebugFilter(dbgMap, e)
    /\ dbgIn' = Append(dbgIn, e)
    /\ UNCHANGED <<memVars, walkVars, devVars>>

DebugNext == \E e \in DebugElems : DebugFold(e)

SpecDebug == DebugInit /\ [][DebugNext]_vars

-----------------------------------------------------------------------------
(* The memory merge passes of one description, one element at a time.      *)

MemInit ==
    /\ DebugIdle /\ WalkIdle /\ DevIdle
    /\ memMap = <<>> /\ memCur = [elem |-> <<>>, exc |-> "none"]
    /\ memCtx \in [pack : PackKinds, node : MemNodes]
    /\ memPc = "run" /\ memFolds = 0
    /\ warned = FALSE /\ warnings = 0 /\ evictions = 0

\* One iteration of the loop of _extract_items('memories', filter).
MemFold(e) ==
    /\ memPc = "run"
    /\ memFolds < MaxMemFolds
    /\ LET r == MemFilter(memMap, e, warned, memCtx)
       IN  /\ memMap' = r.map
           /\ warned' = r.warned
           /\ warnings' = warnings + r.logged
           /\ evictions' = evictions + r.same
           /\ memCur' = [elem |-> e, exc |-> r.exc]
           /\ memPc' = IF Caught(r.exc) THEN "run" ELSE "aborted"
    /\ memFolds' = memFolds + 1
    /\ UNCHANGED <<memCtx, dbgVars, walkVars, devVars>>

\* The pass ends and CmsisPackDevice is constructed, which needs the part
\* number; the walk then runs the pass of the next device or variant node.
MemNextPass(n) ==
    /\ memPc = "run"
    /\ memMap # <<>>
    /\ IF GetPartNumberFromElement(memCtx.node).exc = "none"
       THEN /\ memPc' = "run"
            /\ memCtx' = [memCtx EXCEPT !.node = n]
       ELSE /\ memPc' = "aborted"
            /\ UNCHANGED memCtx
    /\ memMap' = <<>>
    /\ memCur' = [elem |-> <<>>, exc |-> "none"]
    /\ UNCHANGED <<memFolds, warned, warnings, evictions, dbgVars, walkVars, devVars>>

MemNext ==
    \/ \E e \in MemElems : MemFold(e)
    \/ \E n \in MemNodes : MemNextPass(n)

SpecMem == MemInit /\ [][MemNext]_vars

-----------------------------------------------------------------------------
(* The walk over descriptions whose family, first device and variant hold  *)
(* elements of every category, well-formed and malformed.                  *)

\* What a node holds: nothing; an element "a"; an element "a2" of the same
\* key as "a"; an element "b" of another key; an element whose required
\* attribute is missing; one whose required attribute is no number.
ItemKinds == {"none", "a", "a2", "b", "missing", "nonnum"}

ItemProcs ==
    [none |-> <<>>,
     a |-> <<[Pname |-> "A", Dcore |-> "M0"]>>,
     a2 |-> <<[Pname |-> "A", Dcore |-> "M4"]>>,
     b |-> <<[Pname |-> "B", Dcore |-> "M0"]>>,
     missing |-> <<[Dcore |-> "M0"]>>,
     nonnum |-> <<[Pname |-> "A", Punits |-> "x"]>>]
ItemMems ==
    [none |-> <<>>,
     a |-> <<[name |-> "a", start |-> "0", size |-> "1"]>>,
     a2 |-> <<[name |-> "a", start |-> "1", size |-> "1"]>>,
     b |-> <<[name |-> "b", start |-> "2", size |-> "1"]>>,
     missing |-> <<[name |-> "a", size |-> "1"]>>,
     nonnum |-> <<[name |-> "a", start |-> "0", size |-> "zz"]>>]
ItemAlgos ==
    [none |-> <<>>,
     a |-> <<[name |-> "x.flm", start |-> "0", size |-> "4"]>>,
     a2 |-> <<[name |-> "y.flm", start |-> "0", size |-> "4"]>>,
     b |-> <<[name |-> "z.flm", start |-> "2", size |-> "2"]>>,
     missing |-> <<[name |-> "x.flm", start |-> "0"]>>,
     nonnum |-> <<[name |-> "x.flm", start |-> "zz", size |-> "4"]>>]
ItemDebugs ==
    [none |-> <<>>,
     a |-> <<[Pname |-> "A", svd |-> "x"]>>,
     a2 |-> <<[Pname |-> "A", svd |-> "y"]>>,
     b |-> <<[Pname |-> "B", svd |-> "x"]>>,
     missing |-> <<[svd |-> "x"]>>,
     nonnum |-> <<[Pname |-> "A", Punit |-> "x", svd |-> "x"]>>]
ItemDps ==
    [none |-> <<>>,
     a |-> <<[__dp |-> "1", mark |-> "a"]>>,
     a2 |-> <<[__dp |-> "1", mark |-> "a2"]>>,
     b |-> <<[__dp |-> "2", mark |-> "b"]>>,
     missing |-> <<[mark |-> "a"]>>,
     nonnum |-> <<[__dp |-> "x", mark |-> "a"]>>]
ItemAps ==
    [none |-> <<>>,
     a |-> <<[tag |-> "accessportV1", __apid |-> "1", index |-> "1"]>>,
     a2 |-> <<[tag |-> "accessportV1", __apid |-> "1", index |-> "2"]>>,
     b |-> <<[tag |-> "accessportV2", __apid |-> "2", address |-> "4"]>>,
     missing |-> <<[tag |-> "accessportV1", index |-> "1"]>>,
     nonnum |-> <<[tag |-> "accessportV1", __apid |-> "x", index |-> "1"]>>]

\* The elements of the seven nodes: the family (node 1) holds those of kind
\* k1, the device of the subFamily (node 3) those of k3, its variant (node 4)
\* those of k4.
ItemsAt(items, k1, k3, k4) == <<items[k1], <<>>, items[k3], items[k4], <<>>, <<>>, <<>>>>

ItemDocs ==
    {[pack |-> "zip", attrib |-> FullAttribs,
      procs |-> ItemsAt(ItemProcs, k1, k3, k4), mems |-> ItemsAt(ItemMems, k1, k3, k4),
      algos |-> ItemsAt(ItemAlgos, k1, k3, k4), debugs |-> ItemsAt(ItemDebugs, k1, k3, k4),
      dps |-> ItemsAt(ItemDps, k1, k3, k4), aps |-> ItemsAt(ItemAps, k1, k3, k4)] :
        k1 \in ItemKinds, k3 \in ItemKinds, k4 \in ItemKinds}

ItemInit == pdsc \in ItemDocs /\ WalkStart

SpecItems == ItemInit /\ [][WalkNext]_vars

-----------------------------------------------------------------------------
(* PROPERTIES                                                              *)

\* The inclusive range of a well-formed memory element.
MemStart(elem) == GetStartAndSize(elem).start
MemEnd(elem) == GetStartAndSize(elem).start + GetStartAndSize(elem).size - 1

\* The attribute is present and int(s, base=0) accepts it.
NumericAttr(elem, name) == name \in DOMAIN elem /\ IsIntLiteral(elem[name])
HasRange(elem) == NumericAttr(elem, "start") /\ NumericAttr(elem, "size")
NumericDp(elem) == NumericAttr(elem, "__dp")
NumericApid(elem) == NumericAttr(elem, "__apid")
HasDp(elem) == "__dp" \in DOMAIN elem
HasApid(elem) == "__apid" \in DOMAIN elem

\* What the merges of memories, algorithms, debug ports and access ports
\* return for node n when the elements that fail a test are taken out of
\* the stack beforehand.
MergedWithout(n, Dp(_), Apid(_)) ==
    [memories |->
         DictValues(FoldMemories([map |-> <<>>, warned |-> FALSE, logged |-> 0,
                                  same |-> 0, exc |-> "none"],
                                 SelectSeq(StackElems(PathTo(n), "mems"), HasRange),
                                 [pack |-> pdsc.pack, node |-> NodeElement(n)]).map),
     algos |-> ExtractAlgos(SelectSeq(StackElems(PathTo(n), "algos"), HasRange)),
     debugports |-> ExtractDebugports(SelectSeq(StackElems(PathTo(n), "dps"), Dp)),
     accessports |-> ExtractAccessports(SelectSeq(StackElems(PathTo(n), "aps"), Apid))]

\* The four collections of a descriptor.
MergedOf(info) ==
    [memories |-> info.memories, algos |-> info.algos,
     debugports |-> info.debugports, accessports |-> info.accessports]

MergedOverPath(n) ==
    [processors |->
         DictValues(FoldProcessors([map |-> <<>>, attrib |-> pdsc.procs],
                                   StackProcessors(PathTo(n))).map),
     memories |->
         DictValues(FoldMemories([map |-> <<>>, warned |-> FALSE, logged |-> 0,
                                  same |-> 0, exc |-> "none"],
                                 StackElems(PathTo(n), "mems"),
                                 [pack |-> pdsc.pack, node |-> NodeElement(n)]).map),
     algos |-> ExtractAlgos(StackElems(PathTo(n), "algos")),
     debugs |-> ExtractDebugs(StackElems(PathTo(n), "debugs")),
     debugports |-> ExtractDebugports(StackElems(PathTo(n), "dps")),
     accessports |-> ExtractAccessports(StackElems(PathTo(n), "aps"))]

\* The attributes of the <processor> element `id` when the processor merge
\* has run over the path of n on the tree as parsed.
InheritedOverPath(n, id) ==
    FoldProcessors([map |-> <<>>, attrib |-> pdsc.procs],
                   StackProcessors(PathTo(n))).attrib[id[1]][id[2]]

\* The six collections of a descriptor.
CollectionsOf(info) ==
    [processors |-> info.processors, memories |-> info.memories, algos |-> info.algos,
     debugs |-> info.debugs, debugports |-> info.debugports,
     accessports |-> info.accessports]

\* C12: the traversal stack always holds the path from the family down to
\* its top node, outer to inner, so when a descriptor is created for node n
\* the stack is the ancestor path of n; every resolved collection of a
\* descriptor is the merge of the elements held by the nodes of that path
\* and of no other node; the stack is empty when the walk has returned from
\* a family.
C12_StackIsPath ==
    /\ stateStack # <<>> => stateStack = PathTo(stateStack[Len(stateStack)])
    /\ walkPc = "done" => stateStack = <<>>
    /\ \A d \in 1..Len(devices) :
           /\ CollectionsOf(devices[d]) = MergedOverPath(devices[d].node)
           /\ \A j \in 1..Len(devices[d].processors) :
                  procAttrib[devices[d].processors[j][1]][devices[d].processors[j][2]]
                      = InheritedOverPath(devices[d].node, devices[d].processors[j])

\* C12 witness: the second device of the first family has its descriptor
\* after the walk has left the subFamily, whose device and variant hold
\* elements of other keys than the family: the descriptor holds the
\* family's elements alone.
C12_SiblingLeftOut ==
    \E d \in 1..Len(devices) :
        /\ devices[d].node = 5
        /\ pdsc.mems[1] = ItemMems.a /\ pdsc.mems[3] = ItemMems.b
        /\ pdsc.mems[4] = ItemMems.a2
        /\ devices[d].memories = ItemMems.a
        /\ devices[d].algos = ItemAlgos.a
        /\ devices[d].debugs = ItemDebugs.a
        /\ devices[d].debugports = ItemDps.a
        /\ devices[d].accessports = ItemAps.a
        /\ devices[d].processors = <<<<1, 1>>>>
        /\ stateStack = <<1, 5>>

\* No <debug> element of the device targets the processor of this name.
Untargeted(name) ==
    \A j \in 1..Len(devInfo.debugs) :
        DebugPname(processorsMap, devInfo.debugs[j]) # name

\* C3: once _build_aps_map has run, every ProcessorInfo of the processor
\* map has a resolved access-port address (not the index -1 it is created
\* with), and a processor that no debug entry targets has index 0 on
\* debug port 0.
C3_ResolvedAddress ==
    builtApidMap =>
        \A i \in 1..Len(processorsMap) :
            /\ processorsMap[i].v.ap_address.addr >= 0
            /\ Untargeted(processorsMap[i].k)
                   => processorsMap[i].v.ap_address = APv1Address(0, 0)

\* The regions of a list that carry the boot-memory flag.
Flagged(list) == {i \in 1..Len(list) : list[i].is_boot_memory}

\* The memory element a region was built from is marked startup.
MarkedStartup(region) == GetBoolAttribute(devInfo.memories[region.src], "startup")

\* Some memory element that yields a region is marked startup.
AnyMarked ==
    \E j \in 1..Len(devInfo.memories) :
        /\ MemKind(devInfo.memories[j]).exc = "none"
        /\ GetStartAndSize(devInfo.memories[j]).exc = "none"
        /\ GetBoolAttribute(devInfo.memories[j], "startup")

\* C4 as stated: in the memory map built for a device at most one region
\* carries the boot-memory flag.
C4_SingleBoot ==
    memoryMap # None => Cardinality(Flagged(memoryMap[1])) <= 1

\* C4 amended: in the memory map built for a device, when some memory
\* element is marked startup the regions that carry the boot-memory flag
\* are exactly those built from a startup-marked element, every flash
\* sub-range split from one included; when none is marked, at most one
\* region carries the flag and it is the first synthesized flash region.
C4_BootFlagSources ==
    memoryMap # None =>
        IF AnyMarked
        THEN \A i \in 1..Len(memoryMap[1]) :
                 memoryMap[1][i].is_boot_memory = MarkedStartup(memoryMap[1][i])
        ELSE /\ Cardinality(Flagged(memoryMap[1])) <= 1
             /\ \A i \in Flagged(memoryMap[1]) :
                    /\ memoryMap[1][i].type = "flash"
                    /\ \A k \in 1..(i - 1) : memoryMap[1][k].type # "flash"

\* A startup-marked ROM region is split into two flash regions and both
\* carry the flag.
C4_SplitBootRegion ==
    /\ memoryMap # None
    /\ \E i, k \in Flagged(memoryMap[1]) :
           /\ i < k
           /\ memoryMap[1][i].type = "flash" /\ memoryMap[1][k].type = "flash"
           /\ memoryMap[1][i].src = memoryMap[1][k].src
           /\ MarkedStartup(memoryMap[1][i])

\* C10: over any sequence of reads of memory_map, valid_dps, apid_map,
\* processors_map and processors_ap_map, each construction runs at most
\* once and every read returns what the first read of its property returned.
C10_BuiltOnce ==
    /\ memBuilds <= 1 /\ dpBuilds <= 1 /\ apBuilds <= 1
    /\ ret # None =>
           first[ret[1].prop] = Some([exc |-> ret[1].exc, val |-> ret[1].val])

\* The <processor> elements, as ids, on the path from the family down to n.
PathProcessors(n) == StackProcessors(PathTo(n))

\* The <processor> elements on the path of a descriptor that are outside
\* the element `p` and have its Pname key, as positions of `path`.
OutersOf(p, path) ==
    {o \in 1..Len(path) :
        /\ path[o][1] < p[1]
        /\ AttribGet(pdsc.procs[path[o][1]][path[o][2]], "Pname")
               = AttribGet(pdsc.procs[p[1]][p[2]], "Pname")}

\* The positions of OutersOf whose element defines attribute x in the tree
\* as parsed.
Defining(p, path, x) ==
    {o \in OutersOf(p, path) : x \in DOMAIN pdsc.procs[path[o][1]][path[o][2]]}

\* The innermost of a set of positions.
Innermost(set) == CHOOSE o \in set : \A q \in set : q <= o

\* C13: when the resolved <processor> element of a device lacks attribute x
\* and outer elements of the same Pname key on the stack define x, the
\* resolved element carries x with the value of the nearest of them.
C13_NearestFills ==
    \A d \in 1..Len(devices) :
        \A j \in 1..Len(devices[d].processors) :
            \A x \in {"Dcore"} :
                (/\ x \notin DOMAIN pdsc.procs[devices[d].processors[j][1]][devices[d].processors[j][2]]
                 /\ Defining(devices[d].processors[j], PathProcessors(devices[d].node), x) # {})
                => /\ x \in DOMAIN procAttrib[devices[d].processors[j][1]][devices[d].processors[j][2]]
                   /\ procAttrib[devices[d].processors[j][1]][devices[d].processors[j][2]][x]
                        = pdsc.procs[PathProcessors(devices[d].node)[Innermost(Defining(devices[d].processors[j], PathProcessors(devices[d].node), x))][1]][PathProcessors(devices[d].node)[Innermost(Defining(devices[d].processors[j], PathProcessors(devices[d].node), x))][2]][x]

\* C16 as stated: the walk and the merge passes leave the attributes of
\* every element of the parsed tree as they were parsed.
C16_TreeUnchanged == procAttrib = pdsc.procs

\* The <processor> elements, as ids, that are outside element <<n, i>> on
\* the path of node n (those of the nodes above n and the earlier ones of n)
\* and have its Pname key.
SameKeyAbove(n, i) ==
    {q \in {PathProcessors(n)[o] : o \in 1..Len(PathProcessors(n))} :
        /\ (q[1] < n \/ (q[1] = n /\ q[2] < i))
        /\ AttribGet(pdsc.procs[q[1]][q[2]], "Pname") = AttribGet(pdsc.procs[n][i], "Pname")}

\* Element <<n, i>> holds value v for attribute x in the tree as parsed.
Parsed(n, i, x, v) == x \in DOMAIN pdsc.procs[n][i] /\ pdsc.procs[n][i][x] = v

\* C16 amended: the walk leaves the nodes, their children and the elements
\* of every category but one as parsed; it updates in place the attributes of
\* <processor> elements only: such an element keeps every attribute name it
\* was parsed with, and each of its attributes has the value it was parsed
\* with or the value an outer <processor> element of the same Pname key was
\* parsed with.
C16_OnlyProcessorsGain ==
    /\ [](\A n \in Nodes :
            /\ Len(procAttrib[n]) = Len(pdsc.procs[n])
            /\ \A i \in 1..Len(pdsc.procs[n]) :
                   /\ DOMAIN pdsc.procs[n][i] \subseteq DOMAIN procAttrib[n][i]
                   /\ \A x \in DOMAIN procAttrib[n][i] :
                          \/ Parsed(n, i, x, procAttrib[n][i][x])
                          \/ \E q \in SameKeyAbove(n, i) :
                                 Parsed(q[1], q[2], x, procAttrib[n][i][x]))
    /\ [][pdsc' = pdsc]_vars

\* C16 witness: a descriptor exists whose <processor> element was parsed
\* without Dcore and carries one now.
C16_ElementGained ==
    \E d \in 1..Len(devices) :
        \E j \in 1..Len(devices[d].processors) :
            /\ "Dcore" \notin DOMAIN pdsc.procs[devices[d].processors[j][1]][devices[d].processors[j][2]]
            /\ "Dcore" \in DOMAIN procAttrib[devices[d].processors[j][1]][devices[d].processors[j][2]]

\* The flash regions of a list that were built from memory element k.
FlashOf(list, k) == SelectSeq(list, LAMBDA r : r.type = "flash" /\ r.src = k)

\* A sector table whose offsets start at 0, increase strictly and lie
\* within a region of the given length.
TableOk(table, length) ==
    /\ table # <<>>
    /\ table[1][1] = 0
    /\ \A j \in 1..(Len(table) - 1) : table[j][1] < table[j + 1][1]
    /\ \A j \in 1..Len(table) : table[j][1] < length

\* The flash regions `flash` are, run after run of Len(table) regions, the
\* split of [lo, hi] by the table: the first of a run starts at lo, each
\* next one starts right after the one before it, the last ends at hi, none is empty and the j-th carries the j-th sector size.
SplitsExactly(flash, table, lo, hi) ==
    /\ Len(flash) % Len(table) = 0
    /\ \A i \in 1..Len(flash) :
           /\ flash[i].sector_size = table[((i - 1) % Len(table)) + 1][2]
           /\ flash[i].start <= flash[i].end
           /\ IF (i - 1) % Len(table) = 0
              THEN flash[i].start = lo
              ELSE flash[i].start = flash[i - 1].end + 1
           /\ i % Len(table) = 0 => flash[i].end = hi

\* C14: the flash regions a ROM region [S, E] is split into by a sector
\* table whose offsets start at 0, increase strictly and are smaller than
\* the region length are, in table order, disjoint and contiguous, cover
\* exactly [S, E], end at E, and the j-th carries the j-th sector size.
C14_SplitCovers ==
    memoryMap # None =>
        \A k \in 1..Len(devInfo.memories) :
            (/\ FlashOf(memoryMap[1], k) # <<>>
             /\ TableOk(FlashOf(memoryMap[1], k)[1].flm[1].sector_sizes,
                        GetStartAndSize(devInfo.memories[k]).size))
            => SplitsExactly(FlashOf(memoryMap[1], k),
                             FlashOf(memoryMap[1], k)[1].flm[1].sector_sizes,
                             MemStart(devInfo.memories[k]), MemEnd(devInfo.memories[k]))

\* C14 witness: the ROM region [0, 1] is split by the table (0, 64), (1, 16)
\* into [0, 0] with sector size 64 and [1, 1] with sector size 16.
C14_TwoRanges ==
    /\ memoryMap # None
    /\ \E k \in 1..Len(devInfo.memories) :
           /\ Len(FlashOf(memoryMap[1], k)) = 2
           /\ FlashOf(memoryMap[1], k)[1].flm[1].sector_sizes = <<<<0, 64>>, <<1, 16>>>>
           /\ FlashOf(memoryMap[1], k)[1].start = 0 /\ FlashOf(memoryMap[1], k)[1].end = 0
           /\ FlashOf(memoryMap[1], k)[1].sector_size = 64
           /\ FlashOf(memoryMap[1], k)[2].start = 1 /\ FlashOf(memoryMap[1], k)[2].end = 1
           /\ FlashOf(memoryMap[1], k)[2].sector_size = 16

\* The algorithms of the device, as positions of _info.algos, whose range
\* [start, start+size-1] contains the whole range of memory element k.
Containing(k) ==
    {a \in 1..Len(devInfo.algos) :
        /\ MemStart(devInfo.algos[a]) <= MemStart(devInfo.memories[k])
        /\ MemEnd(devInfo.memories[k]) <= MemEnd(devInfo.algos[a])}

\* The first of them in the order of the collection.
FirstContaining(k) == CHOOSE a \in Containing(k) : \A b \in Containing(k) : a <= b

\* Memory element k yields a ROM region.
YieldsRom(k) ==
    /\ MemKind(devInfo.memories[k]).exc = "none"
    /\ MemKind(devInfo.memories[k]).type = "rom"
    /\ GetStartAndSize(devInfo.memories[k]).exc = "none"

\* C15: a flash region of the memory map was made with the first algorithm,
\* in the order of the resolved collection, whose range contains the whole
\* ROM region it replaces; a ROM region that no algorithm contains stays a
\* ROM region.
C15_FirstContaining ==
    memoryMap # None =>
        \A i \in 1..Len(memoryMap[1]) :
            /\ memoryMap[1][i].type = "flash"
                   => /\ Containing(memoryMap[1][i].src) # {}
                      /\ memoryMap[1][i].flm[1].file
                             = devInfo.algos[FirstContaining(memoryMap[1][i].src)].name
            /\ (YieldsRom(memoryMap[1][i].src) /\ Containing(memoryMap[1][i].src) = {})
                   => memoryMap[1][i].type = "rom"

\* C15 witness: the first algorithm covers the first address of the ROM
\* region [0, 1] only; the region was converted with the second one.
C15_PartialPassedOver ==
    /\ memoryMap # None
    /\ Len(devInfo.algos) = 2
    /\ MemEnd(devInfo.algos[1]) = 0
    /\ \E i \in 1..Len(memoryMap[1]) :
           /\ memoryMap[1][i].type = "flash"
           /\ memoryMap[1][i].src = 1
           /\ memoryMap[1][i].flm[1].file = "y.flm"

\* C17: in a memory map that was built, a ROM region whose matched
\* algorithm gives an explicit RAMstart is converted into flash regions
\* that use that RAM, whether or not the device has a default RAM. (The
\* pack is a zip archive, where a file that is missing or fails to decode
\* leaves no memory map.)
C17_ExplicitRamSuffices ==
    (memoryMap # None /\ devInfo.pack = "zip") =>
        \A i \in 1..Len(memoryMap[1]) :
            (/\ YieldsRom(memoryMap[1][i].src)
             /\ Containing(memoryMap[1][i].src) # {}
             /\ NumericAttr(devInfo.algos[FirstContaining(memoryMap[1][i].src)], "RAMstart"))
            => /\ memoryMap[1][i].type = "flash"
               /\ memoryMap[1][i].algo[1].ram.start
                      = IntOf(devInfo.algos[FirstContaining(memoryMap[1][i].src)].RAMstart)

\* C19: no read of memory_map ends with the failure of the pack storage or
\* of the decoder: not with the decoder's exception, and with KeyError only
\* when an <algorithm> element lacks its name attribute.
C19_LoadFailureRecovered ==
    ret # None =>
        /\ ret[1].exc # "FlashAlgoException"
        /\ ret[1].exc = "KeyError"
               => \E a \in 1..Len(devInfo.algos) : "name" \notin DOMAIN devInfo.algos[a]

\* A debug entry that fails at some point of its processing: an undefined
\* Pname, no AP address, or a Punit or address that is not a number.
EntryFails(ap, unit, address) ==
    ap.exc # "none" \/ unit.exc # "none" \/ address.exc # "none"

\* The loop body of the topology resolver with a failing entry leaving the
\* processor map as it was.
WholeOrNothing(debug, pname, ap) ==
    IF EntryFails(ap, GetIntAttribute(debug, "Punit", Some(0)),
                  GetIntAttribute(debug, "address", Some(0)))
    THEN ap.t
    ELSE DebugAssign(debug, pname, ap)

WholeStep(t, debug, pname) ==
    IF ~DictHas(t.processorsMap, pname) THEN t
    ELSE WholeOrNothing(debug, pname, DebugAp(t, debug))

RECURSIVE FoldWhole(_, _)
FoldWhole(t, debugs) ==
    IF debugs = <<>> THEN t
    ELSE FoldWhole(WholeStep(t, Head(debugs), DebugPname(t.processorsMap, Head(debugs))),
                   Tail(debugs))

\* The device before any of its topology is built.
Unbuilt ==
    [validDps |-> <<>>, apids |-> <<>>, processorsMap |-> <<>>,
     processorsApMap |-> <<>>, builtApidMap |-> FALSE, dpBuilds |-> 0, apBuilds |-> 0]

\* C18: a debug entry whose processing fails at any point changes none of
\* the fields of its ProcessorInfo, the values of earlier entries are kept
\* and the later entries are processed: the processor map is the one the
\* entries that do not fail give.
C18_FailedEntryInert ==
    builtApidMap =>
        processorsMap =
            FoldWhole(HandleProcessors(HandleAccessports(Unbuilt, devInfo.accessports)),
                      devInfo.debugs).processorsMap

\* The valid debug ports: the numeric __dp of the <debugport> elements, or
\* port 0 when there is none.
DpNumbers ==
    {IntOf(devInfo.debugports[i].__dp) :
        i \in {j \in 1..Len(devInfo.debugports) :
                  NumericAttr(devInfo.debugports[j], "__dp")}}
ValidSet == IF DpNumbers = {} THEN {0} ELSE DpNumbers

\* The debug port of an entry resolved by index: __dp, 0 without it, None
\* when it is not a number.
IndexDp(e) ==
    IF "__dp" \notin DOMAIN e THEN Some(0)
    ELSE IF IsIntLiteral(e.__dp) THEN Some(IntOf(e.__dp))
    ELSE None

\* The access-port address of a debug entry by the priority __apid, __ap,
\* default; None when the entry is skipped.
Resolution(e) ==
    IF "__apid" \in DOMAIN e
    THEN IF IsIntLiteral(e.__apid) /\ DictHas(apids, IntOf(e.__apid))
         THEN Some(DictGet(apids, IntOf(e.__apid)))
         ELSE None
    ELSE IF "__ap" \in DOMAIN e
    THEN IF IndexDp(e) # None /\ IndexDp(e)[1] \in ValidSet /\ IsIntLiteral(e.__ap)
         THEN Some(APv1Address(IntOf(e.__ap), IndexDp(e)[1]))
         ELSE None
    ELSE Some(APv1Address(0, 0))

\* The entries that give processor pname its address: they name it (or
\* name none and it is the first), resolve, and have a usable Punit.
Gives(pname) ==
    {j \in 1..Len(devInfo.debugs) :
        /\ pname = IF "Pname" \in DOMAIN devInfo.debugs[j]
                   THEN devInfo.debugs[j].Pname ELSE processorsMap[1].k
        /\ Resolution(devInfo.debugs[j]) # None
        /\ "Punit" \in DOMAIN devInfo.debugs[j] => IsIntLiteral(devInfo.debugs[j].Punit)}

LastOf(S) == CHOOSE j \in S : \A k \in S : k <= j

\* C20: once the topology is built, the address of every processor is the
\* one the priority __apid, __ap, default gives for the last debug entry
\* that gives it an address: the apid map's entry when __apid is present
\* (the entry is skipped when the id is not in the map, __ap or not), else
\* the index-based address (__ap, __dp or 0) with __dp among the valid debug
\* ports, else AP 0 on debug port 0.
C20_ResolutionPriority ==
    builtApidMap =>
        \A i \in 1..Len(processorsMap) :
            processorsMap[i].v.ap_address =
                IF Gives(processorsMap[i].k) = {} THEN APv1Address(-1, 0)
                ELSE Resolution(devInfo.debugs[LastOf(Gives(processorsMap[i].k))])[1]

\* An entry with both __apid and __ap has given its processor the address
\* of the apid map, which is not the index-based one.
C20_ApidOverIndex ==
    /\ builtApidMap
    /\ \E i \in 1..Len(processorsMap), j \in 1..Len(devInfo.debugs) :
           /\ {"Pname", "__apid", "__ap"} \subseteq DOMAIN devInfo.debugs[j]
           /\ devInfo.debugs[j].Pname = processorsMap[i].k
           /\ DictHas(apids, IntOf(devInfo.debugs[j].__apid))
           /\ processorsMap[i].v.ap_address = DictGet(apids, IntOf(devInfo.debugs[j].__apid))
           /\ processorsMap[i].v.ap_address # APv1Address(IntOf(devInfo.debugs[j].__ap), 0)

\* An access-port element that resolves to an address: its __dp, when
\* present, and its index (v1) or address (v2) are numbers.
WellFormedAp(e) ==
    /\ "__dp" \in DOMAIN e => IsIntLiteral(e.__dp)
    /\ NumericAttr(e, IF e.tag = "accessportV1" THEN "index" ELSE "address")

\* The address a well-formed access-port element denotes.
AddressOfAp(e) ==
    IF e.tag = "accessportV1"
    THEN APv1Address(IntOf(e.index), IF "__dp" \in DOMAIN e THEN IntOf(e.__dp) ELSE 0)
    ELSE APv2Address(IntOf(e.address), IF "__dp" \in DOMAIN e THEN IntOf(e.__dp) ELSE 0)

\* The elements of a stack whose __apid denotes the integer id.
Denoting(stack, id) ==
    {j \in 1..Len(stack) : NumericAttr(stack[j], "__apid") /\ IntOf(stack[j].__apid) = id}

\* The stacks of well-formed access-port elements this device's resolved
\* access ports come from.
StacksOfDevice ==
    {stack \in TopoAccessportStacks :
        /\ ExtractAccessports(stack) = devInfo.accessports
        /\ \A j \in 1..Len(stack) : WellFormedAp(stack[j])}

\* C21: for the access-port elements of the ancestor stack that denote the
\* same integer __apid, whatever their shape and spelling, the apid map
\* binds the id to the address of the element processed last.
C21_LastApidWins ==
    builtApidMap =>
        \A stack \in StacksOfDevice : \A id \in 0..MaxNum :
            Denoting(stack, id) # {} =>
                /\ DictHas(apids, id)
                /\ DictGet(apids, id) = AddressOfAp(stack[LastOf(Denoting(stack, id))])

\* The smallest sector size of a table that is not empty.
SmallestSector(table) ==
    CHOOSE n \in {table[j][2] : j \in 1..Len(table)} :
        \A j \in 1..Len(table) : n <= table[j][2]

\* The page size chosen for a decoded algorithm: its page size when that is
\* greater than 32, otherwise the smallest sector size of its table.
ChosenPage(flm) ==
    IF flm.page_size > 32 THEN flm.page_size ELSE SmallestSector(flm.sector_sizes)

Smaller(a, b) == IF a <= b THEN a ELSE b

\* C22: every flash region of the memory map has a page size not larger
\* than its sector size: the smaller of the page size chosen for its
\* algorithm and the sector size of its range.
C22_PageWithinSector ==
    memoryMap # None =>
        \A i \in 1..Len(memoryMap[1]) :
            memoryMap[1][i].type = "flash" =>
                /\ memoryMap[1][i].page_size <= memoryMap[1][i].sector_size
                /\ memoryMap[1][i].page_size =
                       Smaller(ChosenPage(memoryMap[1][i].flm[1]), memoryMap[1][i].sector_size)

\* C22 witness: an algorithm of page size 64 gave a range of sector size 16
\* the page size 16.
C22_PageLimited ==
    /\ memoryMap # None
    /\ \E i \in 1..Len(memoryMap[1]) :
           /\ memoryMap[1][i].type = "flash"
           /\ memoryMap[1][i].flm[1].page_size = 64
           /\ memoryMap[1][i].sector_size = 16
           /\ memoryMap[1][i].page_size = 16

\* A resolved <processor> element that gives a processor: it has Pname or
\* Dcore, and its Punits, when present, is a number.
GivesProcessor(e) ==
    /\ "Pname" \in DOMAIN e \/ "Dcore" \in DOMAIN e
    /\ "Punits" \in DOMAIN e => IsIntLiteral(e.Punits)
NameOfProcessor(e) == IF "Pname" \in DOMAIN e THEN e.Pname ELSE e.Dcore
UnitsOfProcessor(e) == IF "Punits" \in DOMAIN e THEN IntOf(e.Punits) ELSE 1

\* The first element of each name among those that give a processor.
FirstOfName ==
    {j \in 1..Len(devInfo.processors) :
        /\ GivesProcessor(devInfo.processors[j])
        /\ \A k \in 1..(j - 1) :
               GivesProcessor(devInfo.processors[k]) =>
                   NameOfProcessor(devInfo.processors[k]) # NameOfProcessor(devInfo.processors[j])}

\* C23: once the topology is built the processor map is not empty: it holds
\* one ProcessorInfo for each name (Pname, else Dcore) of the elements that
\* are not skipped, with the units of the first element of that name, and
\* exactly the placeholder "unknown" when no element gives a processor.
C23_ProcessorMapFilled ==
    builtApidMap =>
        /\ Len(processorsMap) > 0
        /\ \A i \in 1..Len(processorsMap) : processorsMap[i].v.name = processorsMap[i].k
        /\ IF FirstOfName = {}
           THEN /\ Len(processorsMap) = 1
                /\ processorsMap[1].k = "unknown"
                /\ processorsMap[1].v.total_units = 1
           ELSE /\ Len(processorsMap) = Cardinality(FirstOfName)
                /\ \A j \in FirstOfName :
                       /\ DictHas(processorsMap, NameOfProcessor(devInfo.processors[j]))
                       /\ DictGet(processorsMap, NameOfProcessor(devInfo.processors[j])).total_units
                              = UnitsOfProcessor(devInfo.processors[j])

\* C23 witness: of two elements that resolve to the same name the map holds
\* the first: the second, with Punits 2, was skipped.
C23_DuplicateSkipped ==
    /\ builtApidMap
    /\ Len(devInfo.processors) = 2
    /\ FirstOfName = {1}
    /\ GivesProcessor(devInfo.processors[2])
    /\ UnitsOfProcessor(devInfo.processors[2]) = 2
    /\ Len(processorsMap) = 1
    /\ processorsMap[1].v.total_units = 1

\* C24: every flash region made from a ROM region [S, E] lies inside
\* [S, E], whatever the decoded sector table.
C24_FlashInsideRom ==
    memoryMap # None =>
        \A i \in 1..Len(memoryMap[1]) :
            memoryMap[1][i].type = "flash" =>
                /\ MemStart(devInfo.memories[memoryMap[1][i].src]) <= memoryMap[1][i].start
                /\ memoryMap[1][i].start <= memoryMap[1][i].end
                /\ memoryMap[1][i].end <= MemEnd(devInfo.memories[memoryMap[1][i].src])

\* C25: when an access to memory_map has failed and a later one has built
\* the map, every resolved memory element appears in it once: no two
\* regions of the map come from the same element, except the flash regions
\* of the different sector ranges of one ROM region.
C25_RetryWithoutDuplicates ==
    (/\ first["memory_map"] # None
     /\ first["memory_map"][1].exc # "none"
     /\ memoryMap # None)
    => \A i \in 1..Len(memoryMap[1]) : \A j \in (i + 1)..Len(memoryMap[1]) :
           memoryMap[1][i].src = memoryMap[1][j].src =>
               /\ memoryMap[1][i].type = "flash"
               /\ memoryMap[1][j].type = "flash"
               /\ memoryMap[1][i].start # memoryMap[1][j].start

\* C26: a step of the walk leaves every descriptor created so far as it
\* is: the elements of its resolved collections, their order, and the
\* attributes of its <processor> elements (those of the other elements are
\* the parsed ones, which no step changes).
C26_DescriptorsFrozen ==
    [][/\ Len(devices') >= Len(devices)
       /\ pdsc' = pdsc
       /\ \A d \in 1..Len(devices) :
              /\ devices'[d] = devices[d]
              /\ \A j \in 1..Len(devices[d].processors) :
                     procAttrib'[devices[d].processors[j][1]][devices[d].processors[j][2]]
                         = procAttrib[devices[d].processors[j][1]][devices[d].processors[j][2]]]_vars

\* C26 witness: the descriptor of the variant was created after that of
\* its device, by merge passes run again over the family's and the device's
\* elements, of which the device's <processor> had been updated in place
\* for the device's descriptor.
C26_MergedAgain ==
    /\ Len(devices) >= 2
    /\ devices[1].node = 3 /\ devices[2].node = 4
    /\ pdsc.procs[1] = ItemProcs.a /\ pdsc.procs[3] = ItemProcs.a2
    /\ pdsc.procs[4] = ItemProcs.nonnum
    /\ devices[1].processors = <<<<3, 1>>>>
    /\ devices[2].processors = <<<<4, 1>>>>
    /\ procAttrib[3][1] # pdsc.procs[3][1]
    /\ devices[1].memories = ItemMems.a2
    /\ devices[2].memories = ItemMems.a2

\* C1: when the resolved <processor> element of a device and an outer
\* element of the same Pname key both define an attribute, the resolved
\* element carries its own value: an explicit value is never overwritten.
C1_InnerWins ==
    \A d \in 1..Len(devices) :
        \A j \in 1..Len(devices[d].processors) :
            LET p == devices[d].processors[j]
                inner == pdsc.procs[p[1]][p[2]]
                path == PathProcessors(devices[d].node)
            IN  \A o \in 1..Len(path) :
                    LET q == path[o]
                        outer == pdsc.procs[q[1]][q[2]]
                    IN  (/\ q[1] < p[1]
                         /\ AttribGet(outer, "Pname") = AttribGet(inner, "Pname"))
                        => \A x \in DOMAIN inner \cap DOMAIN outer :
                               procAttrib[p[1]][p[2]][x] = inner[x]

\* The nodes whose own path has all that a descriptor needs.
DescriptorOk(n) ==
    /\ GetPartNumberFromElement(NodeElement(n)).exc = "none"
    /\ ExtractFamilies(PathTo(n)).exc = "none"

\* C5: when the walk has ended, every device and variant node whose own
\* descriptor can be produced has one, whatever failed for the other nodes.
C5_SiblingsSurvive ==
    walkPc \in {"done", "aborted"} =>
        \A n \in DeviceNodes :
            DescriptorOk(n) => \E d \in 1..Len(devices) : devices[d].node = n

\* Two inclusive ranges share an address.
Intersect(s1, e1, s2, e2) == s1 <= e2 /\ s2 <= e1

\* C2: after the memory merge, no two entries of the resolved collection
\* with the same processor name (or both without one) have intersecting
\* inclusive address ranges.
C2_NoOverlapInScope ==
    (memPc = "run" /\ memCur.exc = "none") =>
        \A i, j \in 1..Len(memMap) :
            (i < j /\ memMap[i].k[2] = memMap[j].k[2]) =>
                ~Intersect(MemStart(memMap[i].v), MemEnd(memMap[i].v),
                           MemStart(memMap[j].v), MemEnd(memMap[j].v))

\* C6: after every step of the debug merge the dict is homogeneous: empty,
\* or exactly one entry under the sentinel key "*", or only per-processor
\* entries and no entry under the sentinel key.
C6_Homogeneous ==
    \/ dbgMap = <<>>
    \/ Len(dbgMap) = 1 /\ dbgMap[1].k = "*"
    \/ \A i \in 1..Len(dbgMap) : dbgMap[i].k # "*" /\ "Pname" \in DOMAIN dbgMap[i].v

\* The index of the last element of `elems` without Pname, 0 if there is none.
LastGlobal(elems) ==
    IF \E i \in 1..Len(elems) : "Pname" \notin DOMAIN elems[i]
    THEN CHOOSE i \in 1..Len(elems) :
            /\ "Pname" \notin DOMAIN elems[i]
            /\ \A j \in (i + 1)..Len(elems) : "Pname" \in DOMAIN elems[j]
    ELSE 0

\* The last element of `elems` after index `from` stored under key `k`.
LastWithKey(elems, from, k) ==
    elems[CHOOSE i \in (from + 1)..Len(elems) :
            /\ DebugKey(elems[i]) = k
            /\ \A j \in (i + 1)..Len(elems) : DebugKey(elems[j]) # k]

\* C7: the final debug collection is the last processed element alone when
\* that element has no Pname; otherwise it holds, for each Pname+unit key,
\* the last element with that key among those processed after the last
\* element without Pname.
C7_OrderDecides ==
    LET n == Len(dbgIn)
        g == LastGlobal(dbgIn)
        result == {dbgMap[i].v : i \in 1..Len(dbgMap)}
    IN  IF n = 0 THEN dbgMap = <<>>
        ELSE IF "Pname" \notin DOMAIN dbgIn[n] THEN DictValues(dbgMap) = <<dbgIn[n]>>
        ELSE /\ result = {LastWithKey(dbgIn, g, DebugKey(dbgIn[i])) : i \in (g + 1)..n}
             /\ Len(dbgMap) = Cardinality({DebugKey(dbgIn[i]) : i \in (g + 1)..n})

\* The step of SpecMem that folds a well-formed memory element.
FoldsWellFormed ==
    /\ memFolds' = memFolds + 1
    /\ GetStartAndSize(memCur'.elem).exc = "none"

\* C8: when a well-formed memory entry is folded in, the entry with its key
\* is replaced, every other entry whose range satisfies the overlap test is
\* removed whatever its Pname, and the new entry is in the dict afterwards.
C8_MergeStep ==
    [][FoldsWellFormed =>
        LET e == memCur'.elem
            key == <<MemName(e, MemStart(e), MemEnd(e) - MemStart(e) + 1), AttribGet(e, "Pname")>>
        IN  /\ DictHas(memMap', key)
            /\ DictGet(memMap', key) = e
            /\ \A i \in 1..Len(memMap) :
                  (/\ memMap[i].k # key
                   /\ Overlaps(MemStart(memMap[i].v), MemEnd(memMap[i].v),
                               MemStart(e), MemEnd(e)))
                  => ~DictHas(memMap', memMap[i].k)]_vars

\* C9: over all merge passes of one description the overlap warning is
\* logged at most once: the flag starts false, is set when the first warning
\* is logged, is never reset, and no warning is logged while it is set.
C9_WarnedOnce ==
    /\ (~warned /\ warnings = 0)
    /\ [](warnings <= 1 /\ (warned <=> warnings = 1))
    /\ [][/\ warned => warned'
          /\ warned => warnings' = warnings
          /\ warnings' # warnings => (~warned /\ warned' /\ warnings' = warnings + 1)]_vars

\* C9 witness: a second same-Pname entry was evicted after the one warning.
C9_SecondOverlapSilent ==
    /\ warnings = 1 /\ warned
    /\ evictions >= 2
    /\ memPc = "run"

====
